---- MODULE Spec2Model ----
(***************************************************************************)
(* Fee reconciliation and tolerance evaluation engine of fintrid           *)
(* (frontend/src/types/trid.ts: the rule evaluators of lib/trid-rules).    *)
(*                                                                         *)
(* Money is an integer number of mills (1/1000 dollar), so that amounts    *)
(* finer than one cent exist and rounding to cents is a real conversion.   *)
(* Confidences are integer percents (0.8 is 80).                           *)
(*                                                                         *)
(* Arithmetic is exact.  The program computes in binary floating point,    *)
(* whose error is far below one mill at these magnitudes, so the two       *)
(* agree except where an exact value lies on a half cent: there toFixed    *)
(* follows the representation error (1001.005 - 1000 gives 1.00).  The     *)
(* inputs below are chosen so that no difference, sum or product of them   *)
(* lies on a half cent.                                                    *)
(***************************************************************************)
EXTENDS Integers, Sequences, FiniteSets, TLC

VARIABLES
    fn,       \* the evaluator that is called
    args,     \* its arguments
    result,   \* its return value, NoResult before the call returns
    pc        \* "call" before the evaluator ran, "done" after

vars == <<fn, args, result, pc>>

NoResult == [none |-> TRUE]

(***************************************************************************)
(* Bounds of the model.                                                    *)
(***************************************************************************)
MaxZeroRows == 2
MaxTenRows == 2
MaxUnlimitedRows == 2

\* one cent in mills: the resolution of toFixed(2)
Cent == 10
Dollar == 100 * Cent

(***************************************************************************)
(* Helpers for JavaScript values.                                          *)
(***************************************************************************)
Abs(x) == IF x < 0 THEN 0 - x ELSE x

Max(a, b) == IF a >= b THEN a ELSE b

\* row[f] used as a condition, for a boolean field: absent (undefined) is falsy
Truthy(row, f) == f \in DOMAIN row /\ row[f]

\* row[f] used as a condition, for a number field: absent and 0 are falsy
TruthyNum(row, f) == f \in DOMAIN row /\ row[f] # 0

\* nums.reduce((sum, x) => sum + x, 0)
RECURSIVE Sum(_)
Sum(nums) == IF nums = <<>> THEN 0 ELSE Head(nums) + Sum(Tail(nums))

\* all sequences over S of length 0..n
SeqsUpTo(S, n) == UNION {[1..k -> S] : k \in 0..n}

(***************************************************************************)
(* trid-rules: configuration and currency rounding.                        *)
(***************************************************************************)
DEFAULTS ==
    [zeroThreshold |-> 1 * Dollar,
     reviewConfidenceFloor |-> 80,
     reviewConfidenceCeil |-> 93,
     lenderCredits |-> 0]

\* { ...DEFAULTS, ...options }: a field of options wins over the default
Config(options) == options @@ DEFAULTS

\* Number(value.toFixed(2)): the nearest cent; an exact half cent goes away
\* from zero
currency(value) ==
    IF value >= 0 THEN ((2 * value + Cent) \div (2 * Cent)) * Cent
    ELSE 0 - (((2 * (0 - value)) + Cent) \div (2 * Cent)) * Cent

\* currency(n / d) for a fraction of mills, n >= 0 and d > 0
currencyOfRatio(n, d) == ((2 * n + Cent * d) \div (2 * Cent * d)) * Cent

\* mutant of borrowerDelta: the difference is not rounded
borrowerDelta_unrounded(le, cd) == cd.borrower - le.borrower

borrowerDelta(le, cd) == currency(cd.borrower - le.borrower)

buildFlag(code, label, severity) ==
    [code |-> code, label |-> label, severity |-> severity]

(***************************************************************************)
(* evaluateZeroTolerance                                                   *)
(***************************************************************************)
\* mutant of ZeroStatus: a delta equal to the threshold fails
ZeroStatus_atLeast(delta, zeroThreshold) ==
    IF delta >= zeroThreshold THEN "FAIL" ELSE "PASS"

\* delta > config.zeroThreshold ? "FAIL" : "PASS"
ZeroStatus(delta, zeroThreshold) ==
    IF delta > zeroThreshold THEN "FAIL" ELSE "PASS"

\* mutant of ZeroMisplaced: the bucket is not looked at
ZeroMisplaced_anyBucket(row, bucket) == Truthy(row, "permittedToShop")

\* bucket === "B" && row.permittedToShop
ZeroMisplaced(row, bucket) == bucket = "B" /\ Truthy(row, "permittedToShop")

\* mutant of ZeroCureAmount: the whole delta is to be cured
ZeroCureAmount_wholeDelta(status, delta, zeroThreshold) ==
    IF status = "FAIL" THEN currency(delta) ELSE 0

\* status === "FAIL" ? currency(delta - config.zeroThreshold) : 0
ZeroCureAmount(status, delta, zeroThreshold) ==
    IF status = "FAIL" THEN currency(delta - zeroThreshold) ELSE 0

\* the rows.map callback of evaluateZeroTolerance: one row scored
ZeroRow(row, bucket, config) ==
    LET delta == borrowerDelta(row.le, row.cd)
        status0 == ZeroStatus(delta, config.zeroThreshold)
        flags0 ==
            IF delta > config.zeroThreshold
            THEN <<buildFlag("ZERO_LINE_OVERAGE",
                             <<"Borrower owes over zero tolerance",
                               currency(delta - config.zeroThreshold)>>,
                             "error")>>
            ELSE <<>>
        misplaced == ZeroMisplaced(row, bucket)
        flags1 ==
            IF misplaced
            THEN Append(flags0,
                        buildFlag("SECTION_PLACEMENT_MISMATCH",
                                  <<"Fee marked permitted-to-shop but placed in zero bucket">>,
                                  "warning"))
            ELSE flags0
        status ==
            IF misplaced /\ status0 = "PASS" THEN "REVIEW" ELSE status0
        cureAmount == ZeroCureAmount(status, delta, config.zeroThreshold)
    IN  [delta |-> delta, status |-> status, flags |-> flags1,
         cureAmount |-> cureAmount] @@ row

\* mutant of ZeroCure: a cured row is absolved
ZeroCure_absolving(row, lenderCredits, totalCureNeeded) ==
    IF row.cureAmount > 0 /\ lenderCredits >= totalCureNeeded
    THEN [row EXCEPT !.status = "PASS", !.cureAmount = 0,
            !.flags = Append(@, buildFlag("CURED_BY_LENDER",
                                <<"Overage offset by lender credit", currency(lenderCredits)>>,
                                "warning"))]
    ELSE row

\* the evaluated.forEach callback that reports a cure by lender credits
ZeroCure(row, lenderCredits, totalCureNeeded) ==
    IF row.cureAmount > 0 /\ lenderCredits >= totalCureNeeded
    THEN [row EXCEPT !.flags =
            Append(@, buildFlag("CURED_BY_LENDER",
                                <<"Overage offset by lender credit", currency(lenderCredits)>>,
                                "warning"))]
    ELSE row

evaluateZeroTolerance(rows, bucket, options) ==
    LET config == Config(options)
        lenderCredits == config.lenderCredits
        scored == [i \in DOMAIN rows |-> ZeroRow(rows[i], bucket, config)]
        totalCureNeeded ==
            currency(Sum([i \in DOMAIN scored |-> scored[i].cureAmount]))
        evaluated ==
            IF lenderCredits > 0 /\ totalCureNeeded > 0
            THEN [i \in DOMAIN scored |->
                    ZeroCure(scored[i], lenderCredits, totalCureNeeded)]
            ELSE scored
        Count(status) ==
            Cardinality({i \in DOMAIN evaluated : evaluated[i].status = status})
    IN  [rows |-> evaluated,
         subtotalLE |->
            currency(Sum([i \in DOMAIN evaluated |-> evaluated[i].le.borrower])),
         subtotalCD |->
            currency(Sum([i \in DOMAIN evaluated |-> evaluated[i].cd.borrower])),
         passCount |-> Count("PASS"),
         failCount |-> Count("FAIL"),
         reviewCount |-> Count("REVIEW"),
         cureAmount |->
            currency(Sum([i \in DOMAIN evaluated |-> evaluated[i].cureAmount]))]

(***************************************************************************)
(* evaluateTenPercent                                                      *)
(***************************************************************************)
\* typeof overrides[id]?.includeInGroup === "boolean"
HasOverride(overrides, id) ==
    id \in DOMAIN overrides /\ "includeInGroup" \in DOMAIN overrides[id]

\* row.providerType === "E" || Boolean(row.isRecording)
TenIsRecording(row) == row.providerType = "E" \/ Truthy(row, "isRecording")

\* mutant of TenEffectiveOnWhitelist: the override map is not consulted
TenEffectiveOnWhitelist_noOverride(row, overrides) == row.onWhitelist

\* the override's includeInGroup if it is a boolean, else row.onWhitelist
TenEffectiveOnWhitelist(row, overrides) ==
    IF HasOverride(overrides, row.id)
    THEN overrides[row.id].includeInGroup
    ELSE row.onWhitelist

\* mutant of TenOffList: a low confidence does not suppress the flag
TenOffList_alsoLowConfidence(effectiveOnWhitelist, isRecording, needsReview, isLowConfidence) ==
    ~effectiveOnWhitelist /\ ~isRecording /\ ~needsReview

\* the condition under which PROVIDER_OFF_LIST is pushed
TenOffList(effectiveOnWhitelist, isRecording, needsReview, isLowConfidence) ==
    ~effectiveOnWhitelist /\ ~isRecording /\ ~needsReview /\ ~isLowConfidence

\* mutant of TenInGroup: a low confidence does not exclude the row
TenInGroup_anyConfidence(effectiveOnWhitelist, isRecording, isLowConfidence) ==
    effectiveOnWhitelist \/ isRecording

\* (effectiveOnWhitelist || isRecording) && !isLowConfidence
TenInGroup(effectiveOnWhitelist, isRecording, isLowConfidence) ==
    (effectiveOnWhitelist \/ isRecording) /\ ~isLowConfidence

\* mutant of TenStatus: a row in the review band passes
TenStatus_bandPasses(effectiveOnWhitelist, isRecording, needsReview, isLowConfidence) ==
    IF isLowConfidence THEN "REVIEW"
    ELSE IF ~effectiveOnWhitelist /\ ~isRecording THEN "REVIEW"
    ELSE "PASS"

\* the status of a ten-percent row
TenStatus(effectiveOnWhitelist, isRecording, needsReview, isLowConfidence) ==
    IF isLowConfidence \/ needsReview THEN "REVIEW"
    ELSE IF ~effectiveOnWhitelist /\ ~isRecording THEN "REVIEW"
    ELSE "PASS"

\* the rows.map callback of evaluateTenPercent: one row scored
TenRow(row, overrides, config) ==
    LET delta == borrowerDelta(row.le, row.cd)
        isRecording == TenIsRecording(row)
        effectiveOnWhitelist == TenEffectiveOnWhitelist(row, overrides)
        isLowConfidence == row.matchConfidence < config.reviewConfidenceFloor
        needsReview ==
            /\ row.matchConfidence >= config.reviewConfidenceFloor
            /\ row.matchConfidence < config.reviewConfidenceCeil
        flags0 ==
            IF TenOffList(effectiveOnWhitelist, isRecording, needsReview,
                          isLowConfidence)
            THEN <<buildFlag("PROVIDER_OFF_LIST",
                             <<"Provider chosen off-list; unlimited tolerance">>,
                             "warning")>>
            ELSE <<>>
        flags1 ==
            IF needsReview
            THEN Append(flags0,
                        buildFlag("LOW_CONFIDENCE",
                                  <<"Match confidence - Review", row.matchConfidence>>,
                                  "warning"))
            ELSE flags0
        inTenGroup == TenInGroup(effectiveOnWhitelist, isRecording, isLowConfidence)
        status ==
            TenStatus(effectiveOnWhitelist, isRecording, needsReview, isLowConfidence)
    IN  [delta |-> delta, status |-> status, flags |-> flags1,
         effectiveOnWhitelist |-> effectiveOnWhitelist,
         inTenGroup |-> inTenGroup] @@ row

\* mutant of TenCure: every in-group row is reported as cured
TenCure_anyDelta(row, lenderCredits) ==
    IF row.inTenGroup
    THEN [row EXCEPT !.flags =
            Append(@, buildFlag("CURED_BY_LENDER",
                                <<"10% overage offset by lender credit",
                                  currency(lenderCredits)>>,
                                "warning"))]
    ELSE row

\* the evaluated.forEach callback that reports a cure of the 10% overage
TenCure(row, lenderCredits) ==
    IF row.inTenGroup /\ row.delta > 0
    THEN [row EXCEPT !.flags =
            Append(@, buildFlag("CURED_BY_LENDER",
                                <<"10% overage offset by lender credit",
                                  currency(lenderCredits)>>,
                                "warning"))]
    ELSE row

\* mutant of TenAllowedMax: the cap is the LE base itself
TenAllowedMax_noMargin(leBase) == currency(leBase)

\* currency(leBase * 1.1); leBase is a whole number of cents, so that
\* leBase * 11 / 10 is a whole number of mills
TenAllowedMax(leBase) == currency((leBase * 11) \div 10)

\* currency(Math.max(0, cdTotal - allowedMax))
TenOverage(cdTotal, allowedMax) == currency(Max(0, cdTotal - allowedMax))

evaluateTenPercent(rows, overrides, options) ==
    LET config == Config(options)
        scored == [i \in DOMAIN rows |-> TenRow(rows[i], overrides, config)]
        InGroup(row) == row.inTenGroup
        eligibleRows == SelectSeq(scored, InGroup)
        leBase ==
            currency(Sum([i \in DOMAIN eligibleRows |-> eligibleRows[i].le.borrower]))
        cdTotal ==
            currency(Sum([i \in DOMAIN eligibleRows |-> eligibleRows[i].cd.borrower]))
        allowedMax == TenAllowedMax(leBase)
        overage == TenOverage(cdTotal, allowedMax)
        status == IF overage > 0 THEN "OVER" ELSE "PASS"
        lenderCredits == config.lenderCredits
        evaluated ==
            IF overage > 0 /\ lenderCredits >= overage
            THEN [i \in DOMAIN scored |-> TenCure(scored[i], lenderCredits)]
            ELSE scored
    IN  [rows |-> evaluated,
         leBase |-> leBase,
         cdTotal |-> cdTotal,
         allowedMax |-> allowedMax,
         overage |-> overage,
         status |-> status]

(***************************************************************************)
(* evaluateUnlimited                                                       *)
(* loanAmount is in whole dollars and interestRate in hundredths of a       *)
(* percent (6.5 % is 650), which keeps the products within 32 bits.        *)
(***************************************************************************)
\* currency((loanAmount * interestRate / 100 / 365) * perDiemDays), in mills:
\* dollars * (rate / 100) / 100 / 365 * days * 1000
ExpectedPerDiem(row) ==
    currencyOfRatio(row.loanAmount * row.interestRate * row.perDiemDays,
                    (100 * 365) \div 10)

(***************************************************************************)
(* The numbers of the deviation test are binary64 values: amounts are no   *)
(* whole numbers of a power of two, so cd.borrower, expectedPerDiem and    *)
(* their quotient are rounded.  A natural number of any size is the        *)
(* sequence of its digits to the base Limb, lowest digit first and no zero *)
(* digit on top; a binary64 value is m * 2^(-f) with m of at most 53 bits. *)
(***************************************************************************)
LimbBits == 14
Limb == 2 ^ LimbBits

RECURSIVE BigTrim(_)
BigTrim(x) ==
    IF x # <<>> /\ x[Len(x)] = 0 THEN BigTrim(SubSeq(x, 1, Len(x) - 1)) ELSE x

RECURSIVE BigOfInt(_)
BigOfInt(n) == IF n = 0 THEN <<>> ELSE <<n % Limb>> \o BigOfInt(n \div Limb)

\* x * k + carry, for k of one digit
RECURSIVE BigTimes(_, _, _)
BigTimes(x, k, carry) ==
    IF x = <<>> THEN BigOfInt(carry)
    ELSE <<(Head(x) * k + carry) % Limb>>
         \o BigTimes(Tail(x), k, (Head(x) * k + carry) \div Limb)

\* x * 2^bits
BigShl(x, bits) ==
    IF x = <<>> THEN <<>>
    ELSE [i \in 1..(bits \div LimbBits) |-> 0] \o BigTimes(x, 2 ^ (bits % LimbBits), 0)

\* quotient q and remainder r of x by k, for k of one digit: the digits
\* i..1 of x are still to be divided, rem is the remainder so far
RECURSIVE BigDivide(_, _, _, _, _)
BigDivide(x, k, i, rem, q) ==
    IF i = 0 THEN [q |-> BigTrim(q), r |-> rem]
    ELSE BigDivide(x, k, i - 1, (rem * Limb + x[i]) % k,
                   <<(rem * Limb + x[i]) \div k>> \o q)

BigDivSmall(x, k) == BigDivide(x, k, Len(x), 0, <<>>)

\* floor(x / 2^bits)
BigShr(x, bits) ==
    IF bits \div LimbBits >= Len(x) THEN <<>>
    ELSE BigDivSmall(SubSeq(x, bits \div LimbBits + 1, Len(x)),
                     2 ^ (bits % LimbBits)).q

RECURSIVE BigLess(_, _)
BigLess(x, y) ==
    IF Len(x) # Len(y) THEN Len(x) < Len(y)
    ELSE IF x = <<>> THEN FALSE
    ELSE IF x[Len(x)] # y[Len(y)] THEN x[Len(x)] < y[Len(y)]
    ELSE BigLess(SubSeq(x, 1, Len(x) - 1), SubSeq(y, 1, Len(y) - 1))

RECURSIVE BigPlus(_, _, _)
BigPlus(x, y, carry) ==
    IF x = <<>> /\ y = <<>> THEN BigOfInt(carry)
    ELSE LET xd == IF x = <<>> THEN 0 ELSE Head(x)
             yd == IF y = <<>> THEN 0 ELSE Head(y)
         IN  <<(xd + yd + carry) % Limb>>
             \o BigPlus(IF x = <<>> THEN <<>> ELSE Tail(x),
                        IF y = <<>> THEN <<>> ELSE Tail(y),
                        (xd + yd + carry) \div Limb)

BigAdd(x, y) == BigPlus(x, y, 0)

\* x - y - borrow digit by digit, for x >= y
RECURSIVE BigMinus(_, _, _)
BigMinus(x, y, borrow) ==
    IF x = <<>> THEN <<>>
    ELSE LET yd == IF y = <<>> THEN 0 ELSE Head(y)
         IN  <<(Head(x) - yd - borrow + Limb) % Limb>>
             \o BigMinus(Tail(x), IF y = <<>> THEN <<>> ELSE Tail(y),
                         IF Head(x) - yd - borrow < 0 THEN 1 ELSE 0)

BigSub(x, y) == BigTrim(BigMinus(x, y, 0))

\* |x - y|
BigDistance(x, y) == IF BigLess(x, y) THEN BigSub(y, x) ELSE BigSub(x, y)

RECURSIVE BigMul(_, _)
BigMul(x, y) ==
    IF x = <<>> \/ y = <<>> THEN <<>>
    ELSE BigTrim(BigAdd(BigTimes(y, Head(x), 0), <<0>> \o BigMul(Tail(x), y)))

\* the number of binary digits of x
BitLen(x) ==
    IF x = <<>> THEN 0
    ELSE (Len(x) - 1) * LimbBits
         + CHOOSE k \in 1..LimbBits : 2 ^ (k - 1) <= x[Len(x)] /\ x[Len(x)] < 2 ^ k

\* the mantissa of a binary64 number
MantissaBits == 53

\* round to nearest, ties to even: m, followed by further digits that are
\* not all zero when sticky, is cut to 53 bits; drop is the number of bits
\* that were cut
Round53(m, sticky) ==
    IF BitLen(m) <= MantissaBits THEN [m |-> m, drop |-> 0]
    ELSE LET drop == BitLen(m) - MantissaBits
             q == BigShr(m, drop)
             twice == BigShl(BigSub(m, BigShl(q, drop)), 1)
             whole == BigShl(<<1>>, drop)
             up == \/ BigLess(whole, twice)
                   \/ twice = whole /\ (sticky \/ q[1] % 2 = 1)
         IN  [m |-> IF up THEN BigAdd(q, <<1>>) ELSE q, drop |-> drop]

\* the binary64 number that an amount is: the nearest to mills / 1000
Binary64(mills) ==
    IF mills = 0 THEN [m |-> <<>>, f |-> 0]
    ELSE LET shift == 70 - BitLen(BigOfInt(mills))
             exact == BigDivSmall(BigShl(BigOfInt(mills), shift), 1000)
             rounded == Round53(exact.q, exact.r # 0)
         IN  [m |-> rounded.m, f |-> shift - rounded.drop]

\* Math.abs(a - b) of two binary64 numbers, rounded
Binary64Distance(a, b) ==
    LET f == Max(a.f, b.f)
        exact == BigDistance(BigShl(a.m, f - a.f), BigShl(b.m, f - b.f))
        rounded == Round53(exact, FALSE)
    IN  [m |-> rounded.m, f |-> f - rounded.drop]

\* 14411518807585589 = 2 * 7205759403792794 + 1: with 57 binary places, the
\* middle between the binary64 number nearest to 0.1 (7205759403792794 *
\* 2^-56, which times 100 rounds to 10) and the next binary64 number (which
\* times 100 rounds to the number after 10)
TenPercentCut == <<13109, 3276, 13107, 3276>>

\* (x / y) * 100 > 10 in binary64 for x >= 0 and y > 0: x / y rounds to a
\* number above the one nearest to 0.1 exactly when the quotient is above
\* the middle TenPercentCut * 2^-57 (a tie goes to the even mantissa, the
\* lower one); compared as x.m * 2^57 * 2^y.f with TenPercentCut * y.m * 2^x.f
Binary64OverTenPercent(x, y) ==
    BigLess(BigShl(BigMul(TenPercentCut, y.m), x.f),
            BigShl(x.m, 57 + y.f))

\* const deviation = Math.abs(row.cd.borrower - expectedPerDiem);
\* (deviation / expectedPerDiem) * 100 > 10, computed in binary64, for the
\* cd.borrower > 0 of the guard; a division by zero gives Infinity
PerDiemDeviates(cdBorrower, expectedPerDiem) ==
    IF expectedPerDiem > 0
    THEN Binary64OverTenPercent(
            Binary64Distance(Binary64(cdBorrower), Binary64(expectedPerDiem)),
            Binary64(expectedPerDiem))
    ELSE IF expectedPerDiem = 0 THEN cdBorrower # 0
    ELSE FALSE

\* mutant of UnlimitedStatus: one flag alone does not put a row in review
UnlimitedStatus_needsTwoFlags(flags) ==
    IF Len(flags) > 1 THEN "REVIEW" ELSE "PASS"

\* flags.length > 0 ? "REVIEW" : "PASS"
UnlimitedStatus(flags) == IF Len(flags) > 0 THEN "REVIEW" ELSE "PASS"

\* mutant of UnlimitedOptionalityMismatch: the bucket is not looked at
UnlimitedOptionalityMismatch_anyBucket(row) ==
    /\ Truthy(row, "lenderRequired")
    /\ ~Truthy(row, "isOptional")

\* row.bucket === "H" && row.lenderRequired &&
\* (row.isOptional ?? false) === false
UnlimitedOptionalityMismatch(row) ==
    /\ row.bucket = "H"
    /\ Truthy(row, "lenderRequired")
    /\ ~Truthy(row, "isOptional")

\* the rows.map callback of evaluateUnlimited
UnlimitedRow(row) ==
    LET delta == borrowerDelta(row.le, row.cd)
        flags0 ==
            IF row.bucket = "F" /\ TruthyNum(row, "perDiemDays") /\ row.perDiemDays > 15
            THEN <<buildFlag("PER_DIEM_OUTLIER",
                             <<"per-diem days recorded", row.perDiemDays>>,
                             "warning")>>
            ELSE <<>>
        flags1 ==
            IF /\ row.bucket = "F"
               /\ TruthyNum(row, "perDiemDays")
               /\ TruthyNum(row, "loanAmount")
               /\ TruthyNum(row, "interestRate")
               /\ row.cd.borrower > 0
               /\ PerDiemDeviates(row.cd.borrower, ExpectedPerDiem(row))
            THEN Append(flags0,
                        buildFlag("PER_DIEM_INTEREST_DEVIATION",
                                  <<"Expected, actual", ExpectedPerDiem(row),
                                    row.cd.borrower>>,
                                  "warning"))
            ELSE flags0
        flags2 ==
            IF row.bucket = "G" /\ TruthyNum(row, "escrowMonths") /\ row.escrowMonths > 2
            THEN Append(flags1,
                        buildFlag("ESCROW_CUSHION_EXCEEDED",
                                  <<"months collected (max 2 permitted)", row.escrowMonths>>,
                                  "warning"))
            ELSE flags1
        flags3 ==
            IF UnlimitedOptionalityMismatch(row)
            THEN Append(flags2,
                        buildFlag("OPTIONALITY_MISMATCH",
                                  <<"Disclosed optional item appears lender-required">>,
                                  "warning"))
            ELSE flags2
        status == UnlimitedStatus(flags3)
    IN  [delta |-> delta, flags |-> flags3, status |-> status] @@ row

evaluateUnlimited(rows) == [i \in DOMAIN rows |-> UnlimitedRow(rows[i])]

(***************************************************************************)
(* Inputs of the evaluators.                                               *)
(***************************************************************************)
\* the id of the fee in position i of a list
FeeId(i) == "fee-" \o ToString(i)

WithIds(rows) == [i \in DOMAIN rows |-> [id |-> FeeId(i)] @@ rows[i]]

Amounts(p) == [le |-> [borrower |-> p[1]], cd |-> [borrower |-> p[2]]]

\* <<le.borrower, cd.borrower>> of the zero-tolerance fees, in mills:
\* unchanged, +0.50, +1.00, +1.004, +1.006, +2.00, a decrease, and an LE
\* amount that is no whole number of cents
ZeroAmounts ==
    {<<1000000, 1000000>>, <<1000000, 1000500>>, <<1000000, 1001000>>,
     <<1000000, 1001004>>, <<1000000, 1001006>>, <<1000000, 1002000>>,
     <<500000, 400000>>, <<10004, 10010>>}

ZeroFees ==
    {Amounts(p) : p \in ZeroAmounts} \cup
    {[permittedToShop |-> b] @@ Amounts(p) : b \in BOOLEAN, p \in ZeroAmounts}

\* RuleOptions given to evaluateZeroTolerance; a missing field is a default
ZeroOptions ==
    {<<>>,
     [lenderCredits |-> 1 * Dollar],
     [lenderCredits |-> 2 * Dollar],
     [zeroThreshold |-> 0],
     [zeroThreshold |-> 1504, lenderCredits |-> 1 * Dollar]}

ZeroCalls ==
    [rows : {WithIds(s) : s \in SeqsUpTo(ZeroFees, MaxZeroRows)},
     bucket : {"A", "B"},
     options : ZeroOptions]

\* <<le.borrower, cd.borrower>> of the ten-percent fees: 15 % up, 9 % up,
\* a pair of amounts that are no whole cents, and an unchanged fee
TenAmounts ==
    {<<1000000, 1150000>>, <<1000000, 1090000>>, <<10064, 11078>>,
     <<200000, 200000>>}

\* below the default floor, on the floor, on the default ceiling
TenConfidences == {50, 80, 93}

\* provider, whitelist, recording and confidence state of a ten-percent fee:
\* shoppable fees on and off the whitelist at each confidence, a confidently
\* matched section E fee and a fee flagged isRecording of low confidence
TenClasses ==
    {[providerType |-> "C", onWhitelist |-> w, matchConfidence |-> c] :
        w \in BOOLEAN, c \in TenConfidences}
    \cup
    {[providerType |-> "E", onWhitelist |-> FALSE, matchConfidence |-> 93],
     [providerType |-> "C", onWhitelist |-> FALSE, matchConfidence |-> 50,
      isRecording |-> TRUE]}

TenFees == {k @@ Amounts(p) : k \in TenClasses, p \in TenAmounts}

TenRowLists == {WithIds(s) : s \in SeqsUpTo(TenFees, MaxTenRows)}

\* override maps: none, an entry for the first fee with includeInGroup true
\* or false, and an entry that has no includeInGroup
TenOverrides ==
    {<<>>,
     [x \in {FeeId(1)} |-> [includeInGroup |-> TRUE]],
     [x \in {FeeId(1)} |-> [includeInGroup |-> FALSE]],
     [x \in {FeeId(1)} |-> <<>>]}

TenOptions ==
    {<<>>,
     [lenderCredits |-> 50 * Dollar],
     [reviewConfidenceFloor |-> 50, reviewConfidenceCeil |-> 85]}

TenCalls ==
    [rows : TenRowLists, overrides : TenOverrides, options : TenOptions]

\* prepaid interest: 20 days at 6.5 % on 30,000 dollars is 106.85; 30 days
\* at 7 % on 30,000 dollars is 172.60 and 10 days at 7.3 % on 50,000 dollars
\* is 100.00, each with a closing amount that is 10 % above it
UnlimitedFees ==
    {[bucket |-> "F"] @@ d @@ l @@ Amounts(p) :
        d \in {<<>>, [perDiemDays |-> 10], [perDiemDays |-> 20]},
        l \in {<<>>, [loanAmount |-> 30000, interestRate |-> 650]},
        p \in {<<0, 0>>, <<106850, 106850>>, <<106850, 140004>>}}
    \cup
    {[bucket |-> "G"] @@ m @@ Amounts(<<200000, 300000>>) :
        m \in {<<>>, [escrowMonths |-> 2], [escrowMonths |-> 3],
               [perDiemDays |-> 20]}}
    \cup
    {[bucket |-> "H"] @@ o @@ r @@ Amounts(<<0, 25004>>) :
        o \in {<<>>, [isOptional |-> TRUE], [isOptional |-> FALSE]},
        r \in {<<>>, [lenderRequired |-> TRUE], [lenderRequired |-> FALSE]}}
    \cup
    {[bucket |-> b, lenderRequired |-> TRUE, escrowMonths |-> 3]
        @@ Amounts(<<200000, 300000>>) : b \in {"F", "G"}}
    \cup
    {[bucket |-> "F", perDiemDays |-> 30, loanAmount |-> 30000,
      interestRate |-> 700] @@ Amounts(<<172600, 189860>>),
     [bucket |-> "F", perDiemDays |-> 10, loanAmount |-> 50000,
      interestRate |-> 730] @@ Amounts(<<100000, 110000>>)}

UnlimitedCalls ==
    [rows : {WithIds(s) : s \in SeqsUpTo(UnlimitedFees, MaxUnlimitedRows)}]

(***************************************************************************)
(* The state machine: one call of one evaluator on one input.              *)
(***************************************************************************)
Init ==
    /\ \/ fn = "evaluateZeroTolerance" /\ args \in ZeroCalls
       \/ fn = "evaluateTenPercent" /\ args \in TenCalls
       \/ fn = "evaluateUnlimited" /\ args \in UnlimitedCalls
    /\ result = NoResult
    /\ pc = "call"

EvaluateZeroTolerance ==
    /\ pc = "call"
    /\ fn = "evaluateZeroTolerance"
    /\ result' = evaluateZeroTolerance(args.rows, args.bucket, args.options)
    /\ pc' = "done"
    /\ UNCHANGED <<fn, args>>

EvaluateTenPercent ==
    /\ pc = "call"
    /\ fn = "evaluateTenPercent"
    /\ result' = evaluateTenPercent(args.rows, args.overrides, args.options)
    /\ pc' = "done"
    /\ UNCHANGED <<fn, args>>

EvaluateUnlimited ==
    /\ pc = "call"
    /\ fn = "evaluateUnlimited"
    /\ result' = evaluateUnlimited(args.rows)
    /\ pc' = "done"
    /\ UNCHANGED <<fn, args>>

Next ==
    \/ EvaluateZeroTolerance
    \/ EvaluateTenPercent
    \/ EvaluateUnlimited

Spec == Init /\ [][Next]_vars

(***************************************************************************)
(* JavaScript strings and the regular expressions of the transformers.     *)
(* A string is a TLA+ string; a regular expression is a sequence of atoms, *)
(* each a set of characters with a repetition: once, optional, one or     *)
(* more, any number.  Under the i flag a letter stands for both of its     *)
(* cases.                                                                  *)
(***************************************************************************)
Char(s, i) == SubSeq(s, i, i)

CharsOf(s) == {Char(s, i) : i \in 1..Len(s)}

LowerChars == "abcdefghijklmnopqrstuvwxyz"
UpperChars == "ABCDEFGHIJKLMNOPQRSTUVWXYZ"
DigitChars == "0123456789"

Letters == CharsOf(LowerChars)
Digits == CharsOf(DigitChars)

\* \s; the labels of the model hold no other white space than the blank
Whitespace == {" "}

\* . : every character that can stand in a label
AnyChar ==
    Letters \cup CharsOf(UpperChars) \cup Digits \cup CharsOf(" .-_&/,()[]$%'!:")

\* the position of character c in string s, 0 if it is not there
IndexIn(s, c) ==
    IF c \in CharsOf(s) THEN CHOOSE i \in 1..Len(s) : Char(s, i) = c ELSE 0

LowerChar(c) ==
    IF IndexIn(UpperChars, c) # 0 THEN Char(LowerChars, IndexIn(UpperChars, c)) ELSE c

UpperChar(c) ==
    IF IndexIn(LowerChars, c) # 0 THEN Char(UpperChars, IndexIn(LowerChars, c)) ELSE c

\* String.prototype.toLowerCase
RECURSIVE toLowerCase(_)
toLowerCase(s) ==
    IF s = "" THEN "" ELSE LowerChar(Head(s)) \o toLowerCase(Tail(s))

\* String.prototype.includes
Includes(s, word) ==
    \E i \in 1..(Len(s) - Len(word) + 1) : SubSeq(s, i, i + Len(word) - 1) = word

MinOf(S) == CHOOSE x \in S : \A y \in S : x <= y
MaxOf(S) == CHOOSE x \in S : \A y \in S : x >= y

\* String.prototype.trim
Trim(s) ==
    LET solid == {i \in 1..Len(s) : Char(s, i) \notin Whitespace}
    IN  IF solid = {} THEN "" ELSE SubSeq(s, MinOf(solid), MaxOf(solid))

One(class) == <<[class |-> class, least |-> 1, many |-> FALSE]>>
Opt(class) == <<[class |-> class, least |-> 0, many |-> FALSE]>>
Plus(class) == <<[class |-> class, least |-> 1, many |-> TRUE]>>
Star(class) == <<[class |-> class, least |-> 0, many |-> TRUE]>>

\* a letter under the i flag
CI(c) == {LowerChar(c), UpperChar(c)}

\* a word under the i flag
RECURSIVE Word(_)
Word(w) == IF w = "" THEN <<>> ELSE One(CI(Head(w))) \o Word(Tail(w))

\* the longest run of characters of class that starts at position i of s
RECURSIVE RunAt(_, _, _)
RunAt(s, i, class) ==
    IF i <= Len(s) /\ Char(s, i) \in class
    THEN Char(s, i) \o RunAt(s, i + 1, class)
    ELSE ""

\* The position after the match of atoms k.. of regex at position i of s, as
\* a backtracking matcher with greedy repetitions finds it; 0 if there is no
\* match.  toEnd: the regex ends with $.  MatchTimes tries atom k taken n
\* times, then fewer times.
RECURSIVE MatchEnd(_, _, _, _, _), MatchTimes(_, _, _, _, _, _)
MatchEnd(regex, k, s, i, toEnd) ==
    IF k > Len(regex)
    THEN IF toEnd /\ i # Len(s) + 1 THEN 0 ELSE i
    ELSE LET run == Len(RunAt(s, i, regex[k].class))
         IN  MatchTimes(regex, k, s, i,
                        IF regex[k].many \/ run = 0 THEN run ELSE 1, toEnd)

MatchTimes(regex, k, s, i, n, toEnd) ==
    IF n < regex[k].least THEN 0
    ELSE LET end == MatchEnd(regex, k + 1, s, i + n, toEnd)
         IN  IF end # 0 THEN end
             ELSE MatchTimes(regex, k, s, i, n - 1, toEnd)

\* the position where the leftmost match of regex in s starts, 0 if none
MatchStart(regex, s, toEnd) ==
    LET starts == {i \in 1..(Len(s) + 1) : MatchEnd(regex, 1, s, i, toEnd) # 0}
    IN  IF starts = {} THEN 0 ELSE MinOf(starts)

\* s.replace(/regex/g, by) from position i on, for a regex that matches no
\* empty string
RECURSIVE ReplaceAll(_, _, _, _)
ReplaceAll(regex, s, i, by) ==
    IF i > Len(s) THEN ""
    ELSE IF MatchEnd(regex, 1, s, i, FALSE) # 0
         THEN by \o ReplaceAll(regex, s, MatchEnd(regex, 1, s, i, FALSE), by)
         ELSE Char(s, i) \o ReplaceAll(regex, s, i + 1, by)

\* parseInt(digits, 10) of a string of digits
RECURSIVE ParseInt(_)
ParseInt(digits) ==
    IF digits = "" THEN 0
    ELSE 10 * ParseInt(SubSeq(digits, 1, Len(digits) - 1))
         + (IndexIn(DigitChars, Char(digits, Len(digits))) - 1)

(***************************************************************************)
(* lib/formatters: the normalizer and the payer-split extractor.           *)
(***************************************************************************)
\* /^[\d]+[\s\.\-]+/
IndexPrefix == Plus(Digits) \o Plus(Whitespace \cup {".", "-"})

\* /\s+to\s+.+$/i
ToProvider ==
    Plus(Whitespace) \o Word("to") \o Plus(Whitespace) \o Plus(AnyChar)

normalizeFee(label) ==
    LET prefixEnd == MatchEnd(IndexPrefix, 1, label, 1, FALSE)
        unnumbered ==
            IF prefixEnd # 0 THEN SubSeq(label, prefixEnd, Len(label)) ELSE label
        toStart == MatchStart(ToProvider, unnumbered, TRUE)
        named ==
            IF toStart # 0 THEN SubSeq(unnumbered, 1, toStart - 1) ELSE unnumbered
    IN  ReplaceAll(Plus(Whitespace), toLowerCase(Trim(named)), 1, " ")

\* A line item is a record with the optional fields label, amount, payer and
\* sub_label; a null or missing field is a field the record does not have.
\* Undefined is the item of a side that a merged entry does not have.
Undefined == [undefined |-> TRUE]

HasAmount(item) == item # Undefined /\ "amount" \in DOMAIN item

Payer(item) == IF "payer" \in DOMAIN item THEN item.payer ELSE ""

\* item.sub_label?.includes(word)
SubLabelIncludes(item, word) ==
    "sub_label" \in DOMAIN item /\ Includes(item.sub_label, word)

getBorrowerAmount(item) ==
    IF ~HasAmount(item) THEN 0
    ELSE IF Payer(item) = "borrower" THEN item.amount
    ELSE IF SubLabelIncludes(item, "borrower") THEN item.amount
    ELSE item.amount

getSellerAmount(item) ==
    IF ~HasAmount(item) THEN 0
    ELSE IF Payer(item) = "seller" \/ SubLabelIncludes(item, "seller")
         THEN item.amount
         ELSE 0

getOtherAmount(item) ==
    IF ~HasAmount(item) THEN 0
    ELSE IF Payer(item) = "other" \/ SubLabelIncludes(item, "others")
         THEN item.amount
         ELSE 0

\* { borrower, seller: getSellerAmount(item) || undefined, other: ... }
PayerSplit(item) ==
    [borrower |-> getBorrowerAmount(item)]
    @@ (IF getSellerAmount(item) # 0 THEN [seller |-> getSellerAmount(item)] ELSE <<>>)
    @@ (IF getOtherAmount(item) # 0 THEN [other |-> getOtherAmount(item)] ELSE <<>>)

\* the first number that /(\d+)\s*(?:day|per.?diem)/i finds in the name, as
\* <<n>>; <<>> when the name has none (undefined)
extractPerDiem(feeName) ==
    LET day == Plus(Digits) \o Star(Whitespace) \o Word("day")
        perDiem ==
            Plus(Digits) \o Star(Whitespace) \o Word("per") \o Opt(AnyChar)
            \o Word("diem")
        starts ==
            {MatchStart(day, feeName, FALSE), MatchStart(perDiem, feeName, FALSE)}
            \ {0}
    IN  IF starts = {} THEN <<>>
        ELSE <<ParseInt(RunAt(feeName, MinOf(starts), Digits))>>

\* the first number that /(\d+)\s*month/i finds in the name, as <<n>>
extractEscrowMonths(feeName) ==
    LET month == Plus(Digits) \o Star(Whitespace) \o Word("month")
        start == MatchStart(month, feeName, FALSE)
    IN  IF start = 0 THEN <<>>
        ELSE <<ParseInt(RunAt(feeName, start, Digits))>>

(***************************************************************************)
(* lib/formatters: the section merger.  itemMap is a Map, modelled as the  *)
(* sequence of its entries in insertion order; an entry is a record with   *)
(* its key, displayLabel, tag (the type or bucket of the entry; the        *)
(* section for A and B) and the items le and cd it has.                    *)
(***************************************************************************)
\* a disclosure is a record of its sections' item lists and its loan_terms;
\* the items of a section that is missing (or of a null document) are []
Items(doc, section) == IF section \in DOMAIN doc THEN doc[section] ELSE <<>>

\* if (item.label)
HasLabel(item) == "label" \in DOMAIN item /\ item.label # ""

\* the position of the entry of key in itemMap, 0 if it has none
MapIndex(itemMap, key) ==
    IF \E i \in DOMAIN itemMap : itemMap[i].key = key
    THEN CHOOSE i \in DOMAIN itemMap : itemMap[i].key = key
    ELSE 0

OnSide(side, item) == IF side = "le" THEN [le |-> item] ELSE [cd |-> item]

\* the body of one items.forEach callback.  mode "set": the entry of the key
\* is set anew; "merge": { ...existing, side: item }; "retag": { ...existing,
\* side: item, tag }.  A key that has no entry gets a new one in every mode.
MergeItem(itemMap, item, side, tag, mode) ==
    IF ~HasLabel(item) THEN itemMap
    ELSE LET key == normalizeFee(item.label)
             at == MapIndex(itemMap, key)
             fresh ==
                OnSide(side, item)
                @@ [key |-> key, displayLabel |-> item.label, tag |-> tag]
         IN  IF at = 0 THEN Append(itemMap, fresh)
             ELSE IF mode = "set" THEN [itemMap EXCEPT ![at] = fresh]
             ELSE IF mode = "merge"
                  THEN [itemMap EXCEPT ![at] = OnSide(side, item) @@ @]
                  ELSE [itemMap EXCEPT ![at] =
                            OnSide(side, item) @@ [tag |-> tag] @@ @]

\* the callbacks of one items.forEach, in the order in which they run
Pass(items, side, tag, mode) ==
    [i \in DOMAIN items |->
        [item |-> items[i], side |-> side, tag |-> tag, mode |-> mode]]

\* itemMap after the callbacks of the passes have run, one after the other
RECURSIVE MergeItems(_, _)
MergeItems(itemMap, passes) ==
    IF passes = <<>> THEN itemMap
    ELSE MergeItems(MergeItem(itemMap, Head(passes).item, Head(passes).side,
                              Head(passes).tag, Head(passes).mode),
                    Tail(passes))

Side(value, side) == IF side \in DOMAIN value THEN value[side] ELSE Undefined

\* value.le?.label || value.cd?.label || normalizedLabel
DisplayLabel(value) ==
    IF HasLabel(Side(value, "le")) THEN value.le.label
    ELSE IF HasLabel(Side(value, "cd")) THEN value.cd.label
    ELSE value.key

\* the row of a zero-tolerance section for the entry at position index
ZeroFeeOf(prefix, index, value) ==
    [id |-> prefix \o ToString(index),
     fee |-> DisplayLabel(value),
     permittedToShop |-> FALSE,
     le |-> PayerSplit(Side(value, "le")),
     cd |-> PayerSplit(Side(value, "cd")),
     changeReason |-> <<>>]

transformSectionA(leData, cdData) ==
    LET itemMap ==
            MergeItems(<<>>, Pass(Items(leData, "A"), "le", "A", "set")
                             \o Pass(Items(cdData, "A"), "cd", "A", "merge"))
    IN  [i \in DOMAIN itemMap |-> ZeroFeeOf("a-", i - 1, itemMap[i])]

transformSectionB(leData, cdData) ==
    LET itemMap ==
            MergeItems(<<>>, Pass(Items(leData, "B"), "le", "B", "set")
                             \o Pass(Items(cdData, "B"), "cd", "B", "merge"))
    IN  [i \in DOMAIN itemMap |-> ZeroFeeOf("b-", i - 1, itemMap[i])]

\* the display label of a recording fee: "and (other) taxes" is dropped and
\* "recording fee(s)" is written "Recording Fees"
RecordingLabel(displayLabel) ==
    LET blanks == Plus(Whitespace)
        andOtherTaxes ==
            blanks \o Word("and") \o blanks \o Word("other") \o blanks
            \o Word("taxe") \o Opt(CI("s"))
        andTaxes == blanks \o Word("and") \o blanks \o Word("taxe") \o Opt(CI("s"))
        recordingFees ==
            Word("recording") \o One({" "}) \o Word("fee") \o Opt(CI("s"))
        s1 == ReplaceAll(andOtherTaxes, displayLabel, 1, "")
        s2 == ReplaceAll(andTaxes, s1, 1, "")
    IN  Trim(ReplaceAll(recordingFees, s2, 1, "Recording Fees"))

\* the row of the ten-percent bucket for the entry at position index; random
\* tells whether Math.random() > 0.3 came out true for this row
TenFeeOf(index, value, random) ==
    LET isRecording == value.tag = "E"
        displayLabel == DisplayLabel(value)
    IN  [id |-> "ten-" \o ToString(index),
         fee |-> IF isRecording /\ Includes(toLowerCase(displayLabel), "recording")
                 THEN RecordingLabel(displayLabel)
                 ELSE displayLabel,
         provider |-> "Unknown Provider",
         providerType |-> value.tag,
         whitelistConfidence |-> IF isRecording THEN 100 ELSE 85,
         onWhitelist |-> IF isRecording THEN TRUE ELSE random,
         matchConfidence |-> 95,
         le |-> PayerSplit(Side(value, "le")),
         cd |-> PayerSplit(Side(value, "cd")),
         changeReason |-> <<>>,
         isRecording |-> isRecording]

\* the itemMap that transformTenPercent builds
TenItemMap(leData, cdData) ==
    MergeItems(<<>>, Pass(Items(leData, "C"), "le", "C", "set")
                     \o Pass(Items(leData, "E"), "le", "E", "retag")
                     \o Pass(Items(cdData, "C"), "cd", "C", "merge")
                     \o Pass(Items(cdData, "E"), "cd", "E", "retag"))

\* randoms[i] is the outcome of Math.random() > 0.3 for the i-th entry
transformTenPercent(leData, cdData, randoms) ==
    LET itemMap == TenItemMap(leData, cdData)
    IN  [i \in DOMAIN itemMap |-> TenFeeOf(i - 1, itemMap[i], randoms[i])]

\* { ...item, bucket } of every item of a list
InBucket(items, bucket) ==
    [i \in DOMAIN items |-> [bucket |-> bucket] @@ items[i]]

\* cdData?.loan_terms?.[field] || leData?.loan_terms?.[field] || 0
LoanTerm(leData, cdData, field) ==
    LET Of(doc) ==
            IF "loan_terms" \in DOMAIN doc /\ field \in DOMAIN doc.loan_terms
            THEN doc.loan_terms[field]
            ELSE 0
    IN  IF Of(cdData) # 0 THEN Of(cdData) ELSE Of(leData)

\* the row of the unlimited bucket for the entry at position index
UnlimitedFeeOf(index, value, loanAmount, interestRate) ==
    LET displayLabel == DisplayLabel(value)
        perDiemDays == extractPerDiem(displayLabel)
        escrowMonths == extractEscrowMonths(displayLabel)
    IN  [id |-> "unlimited-" \o ToString(index),
         bucket |-> value.tag,
         fee |-> displayLabel,
         le |-> PayerSplit(Side(value, "le")),
         cd |-> PayerSplit(Side(value, "cd")),
         changeReason |-> <<>>,
         isOptional |-> value.tag = "H"]
        @@ (IF perDiemDays = <<>> THEN <<>> ELSE [perDiemDays |-> perDiemDays[1]])
        @@ (IF escrowMonths = <<>> THEN <<>> ELSE [escrowMonths |-> escrowMonths[1]])
        @@ (IF loanAmount > 0 THEN [loanAmount |-> loanAmount] ELSE <<>>)
        @@ (IF interestRate > 0 THEN [interestRate |-> interestRate] ELSE <<>>)

\* the itemMap that transformUnlimited builds
UnlimitedItemMap(leData, cdData) ==
    MergeItems(<<>>,
               Pass(InBucket(Items(leData, "F"), "F"), "le", "F", "set")
               \o Pass(InBucket(Items(leData, "G"), "G"), "le", "G", "retag")
               \o Pass(InBucket(Items(leData, "H"), "H"), "le", "H", "retag")
               \o Pass(InBucket(Items(cdData, "F"), "F"), "cd", "F", "merge")
               \o Pass(InBucket(Items(cdData, "G"), "G"), "cd", "G", "merge")
               \o Pass(InBucket(Items(cdData, "H"), "H"), "cd", "H", "merge"))

transformUnlimited(leData, cdData) ==
    LET itemMap == UnlimitedItemMap(leData, cdData)
        loanAmount == LoanTerm(leData, cdData, "loan_amount")
        interestRate == LoanTerm(leData, cdData, "interest_rate_pct")
    IN  [i \in DOMAIN itemMap |->
            UnlimitedFeeOf(i - 1, itemMap[i], loanAmount, interestRate)]

transformTridData(loanEstimate, closingDisclosure, randoms) ==
    [origination |-> transformSectionA(loanEstimate, closingDisclosure),
     cannotShop |-> transformSectionB(loanEstimate, closingDisclosure),
     tenPercent |-> transformTenPercent(loanEstimate, closingDisclosure, randoms),
     unlimited |-> transformUnlimited(loanEstimate, closingDisclosure)]

(***************************************************************************)
(* ai-fee-transformer: the pre-matched path.  A matched fee is a record    *)
(* with fee_name, section, match_confidence, tolerance_category, is_new    *)
(* and the optional le_amount, cd_amount, le_label, cd_label and           *)
(* provider_name.                                                          *)
(***************************************************************************)
\* fee[field] ?? 0
AmountOr0(fee, field) == IF field \in DOMAIN fee THEN fee[field] ELSE 0

\* fee[field] || "": a missing and an empty text are both falsy
TextOrEmpty(fee, field) == IF field \in DOMAIN fee THEN fee[field] ELSE ""

\* str.toLowerCase().replace(/[^a-z0-9]+/g, "-").replace(/^-|-$/g, "")
sanitizeId(str) ==
    LET dashed ==
            ReplaceAll(Plus(AnyChar \ (Letters \cup Digits)), toLowerCase(str), 1, "-")
        headless ==
            IF dashed # "" /\ Head(dashed) = "-" THEN Tail(dashed) ELSE dashed
    IN  IF headless # "" /\ Char(headless, Len(headless)) = "-"
        THEN SubSeq(headless, 1, Len(headless) - 1)
        ELSE headless

\* the texts with an amount are kept as a tuple of the text and the amount
\* that toFixed(2) prints
calculateChangeReason(leAmount, cdAmount, isNew) ==
    LET diff == cdAmount - leAmount
    IN  IF isNew THEN <<"NEW FEE - Not in Loan Estimate">>
        ELSE IF diff = 0 THEN <<"No change">>
        ELSE IF diff > 0 THEN <<"Increased by", currency(diff)>>
        ELSE <<"Decreased by", currency(Abs(diff))>>

\* label.match(/\bto\s+(.+?)$/i): the trimmed text after the first word "to"
\* that is followed by white space and more text
extractProvider(label) ==
    LET toRest == Word("to") \o Plus(Whitespace) \o Plus(AnyChar)
        wordChars == Letters \cup CharsOf(UpperChars) \cup Digits \cup {"_"}
        starts ==
            {j \in 1..Len(label) :
                /\ j = 1 \/ Char(label, j - 1) \notin wordChars
                /\ MatchEnd(toRest, 1, label, j, TRUE) # 0}
    IN  IF starts = {} THEN "Unknown Provider"
        ELSE LET from == MinOf(starts) + 2
                 blanks == Len(RunAt(label, from, Whitespace))
                 skipped == IF from + blanks > Len(label) THEN blanks - 1 ELSE blanks
             IN  Trim(SubSeq(label, from + skipped, Len(label)))

\* fee.is_new ? `${fee.fee_name} [NEW]` : fee.fee_name
FeeLabel(fee) == IF fee.is_new THEN fee.fee_name \o " [NEW]" ELSE fee.fee_name

\* mutant of transformToZeroTolerance: no fee is marked permitted to shop
transformToZeroTolerance_notShoppable(fee) ==
    [id |-> "ai-zero-" \o fee.section \o "-" \o sanitizeId(fee.fee_name),
     fee |-> FeeLabel(fee),
     permittedToShop |-> FALSE,
     le |-> [borrower |-> AmountOr0(fee, "le_amount")],
     cd |-> [borrower |-> AmountOr0(fee, "cd_amount")],
     changeReason |->
        calculateChangeReason(AmountOr0(fee, "le_amount"),
                              AmountOr0(fee, "cd_amount"), fee.is_new)]

transformToZeroTolerance(fee) ==
    [id |-> "ai-zero-" \o fee.section \o "-" \o sanitizeId(fee.fee_name),
     fee |-> FeeLabel(fee),
     permittedToShop |-> fee.section = "B",
     le |-> [borrower |-> AmountOr0(fee, "le_amount")],
     cd |-> [borrower |-> AmountOr0(fee, "cd_amount")],
     changeReason |->
        calculateChangeReason(AmountOr0(fee, "le_amount"),
                              AmountOr0(fee, "cd_amount"), fee.is_new)]

\* mutant of transformToTenPercent: no fee is on the whitelist
transformToTenPercent_offList(fee) ==
    [id |-> "ai-ten-" \o fee.section \o "-" \o sanitizeId(fee.fee_name),
     fee |-> FeeLabel(fee),
     provider |->
        IF TextOrEmpty(fee, "provider_name") # ""
        THEN fee.provider_name
        ELSE extractProvider(
                IF TextOrEmpty(fee, "cd_label") # "" THEN fee.cd_label
                ELSE IF TextOrEmpty(fee, "le_label") # "" THEN fee.le_label
                ELSE fee.fee_name),
     providerType |-> fee.section,
     whitelistConfidence |-> fee.match_confidence,
     onWhitelist |-> FALSE,
     matchConfidence |-> fee.match_confidence,
     le |-> [borrower |-> AmountOr0(fee, "le_amount")],
     cd |-> [borrower |-> AmountOr0(fee, "cd_amount")],
     changeReason |->
        calculateChangeReason(AmountOr0(fee, "le_amount"),
                              AmountOr0(fee, "cd_amount"), fee.is_new),
     isRecording |-> Includes(toLowerCase(fee.fee_name), "recording")]

transformToTenPercent(fee) ==
    [id |-> "ai-ten-" \o fee.section \o "-" \o sanitizeId(fee.fee_name),
     fee |-> FeeLabel(fee),
     provider |->
        IF TextOrEmpty(fee, "provider_name") # ""
        THEN fee.provider_name
        ELSE extractProvider(
                IF TextOrEmpty(fee, "cd_label") # "" THEN fee.cd_label
                ELSE IF TextOrEmpty(fee, "le_label") # "" THEN fee.le_label
                ELSE fee.fee_name),
     providerType |-> fee.section,
     whitelistConfidence |-> fee.match_confidence,
     onWhitelist |-> fee.match_confidence >= 70,
     matchConfidence |-> fee.match_confidence,
     le |-> [borrower |-> AmountOr0(fee, "le_amount")],
     cd |-> [borrower |-> AmountOr0(fee, "cd_amount")],
     changeReason |->
        calculateChangeReason(AmountOr0(fee, "le_amount"),
                              AmountOr0(fee, "cd_amount"), fee.is_new),
     isRecording |-> Includes(toLowerCase(fee.fee_name), "recording")]

transformToUnlimited(fee) ==
    LET perDiemDays == extractPerDiem(fee.fee_name)
        escrowMonths == extractEscrowMonths(fee.fee_name)
        optional == Includes(toLowerCase(fee.fee_name), "optional")
    IN  [id |-> "ai-unlim-" \o fee.section \o "-" \o sanitizeId(fee.fee_name),
         bucket |-> fee.section,
         fee |-> FeeLabel(fee),
         le |-> [borrower |-> AmountOr0(fee, "le_amount")],
         cd |-> [borrower |-> AmountOr0(fee, "cd_amount")],
         changeReason |->
            calculateChangeReason(AmountOr0(fee, "le_amount"),
                                  AmountOr0(fee, "cd_amount"), fee.is_new),
         isOptional |-> optional,
         lenderRequired |-> ~optional]
        @@ (IF perDiemDays = <<>> THEN <<>> ELSE [perDiemDays |-> perDiemDays[1]])
        @@ (IF escrowMonths = <<>> THEN <<>> ELSE [escrowMonths |-> escrowMonths[1]])

\* the list that the loop of transformAIMatchedData fills for the fees of one
\* tolerance category (and, for the category zero, of one section)
RECURSIVE AdaptedFees(_, _, _)
AdaptedFees(fees, category, section) ==
    IF fees = <<>> THEN <<>>
    ELSE LET fee == Head(fees)
             rest == AdaptedFees(Tail(fees), category, section)
         IN  IF AmountOr0(fee, "le_amount") = 0 /\ AmountOr0(fee, "cd_amount") = 0
             THEN rest
             ELSE IF fee.tolerance_category # category THEN rest
             ELSE IF category = "zero"
                  THEN IF fee.section = section
                       THEN <<transformToZeroTolerance(fee)>> \o rest
                       ELSE rest
             ELSE IF category = "ten_percent"
                  THEN <<transformToTenPercent(fee)>> \o rest
             ELSE <<transformToUnlimited(fee)>> \o rest

\* tridComparison is not null here: the page takes this path only then
transformAIMatchedData(tridComparison) ==
    LET fees ==
            IF "matched_fees" \in DOMAIN tridComparison
            THEN tridComparison.matched_fees
            ELSE <<>>
    IN  [origination |-> AdaptedFees(fees, "zero", "A"),
         cannotShop |-> AdaptedFees(fees, "zero", "B"),
         tenPercent |-> AdaptedFees(fees, "ten_percent", ""),
         unlimited |-> AdaptedFees(fees, "unlimited", "")]

(***************************************************************************)
(* trid-rules: the exception collector.                                    *)
(***************************************************************************)
\* mutant of pushFlags: a row is listed once, with its first flag
RECURSIVE pushFlags_oncePerRow(_, _)
pushFlags_oncePerRow(section, rows) ==
    IF rows = <<>> THEN <<>>
    ELSE LET row == Head(rows)
         IN  [k \in DOMAIN row.flags \cap {1} |->
                [id |-> row.id,
                 section |-> section,
                 fee |-> row.fee,
                 message |-> row.flags[k].label,
                 severity |-> row.flags[k].severity,
                 amount |-> row.delta]]
             \o pushFlags_oncePerRow(section, Tail(rows))

\* the entries that pushFlags(section, rows) appends
RECURSIVE pushFlags(_, _)
pushFlags(section, rows) ==
    IF rows = <<>> THEN <<>>
    ELSE LET row == Head(rows)
         IN  [k \in DOMAIN row.flags |->
                [id |-> row.id,
                 section |-> section,
                 fee |-> row.fee,
                 message |-> row.flags[k].label,
                 severity |-> row.flags[k].severity,
                 amount |-> row.delta]]
             \o pushFlags(section, Tail(rows))

\* unlimited.forEach((row) => pushFlags(row.bucket, [row]))
RECURSIVE pushUnlimited(_)
pushUnlimited(rows) ==
    IF rows = <<>> THEN <<>>
    ELSE pushFlags(Head(rows).bucket, <<Head(rows)>>) \o pushUnlimited(Tail(rows))

\* the synthetic entry of the aggregate test
OverageEntry(ten) ==
    IF ten.overage > 0
    THEN <<[id |-> "ten-percent-overage",
            section |-> "C+E",
            fee |-> "10% Aggregated",
            message |-> <<"Exceeded by", ten.overage>>,
            severity |-> "error",
            amount |-> ten.overage]>>
    ELSE <<>>

collectExceptions(a, b, ten, unlimited) ==
    pushFlags("A", a.rows) \o pushFlags("B", b.rows) \o pushFlags("C+E", ten.rows)
    \o pushUnlimited(unlimited) \o OverageEntry(ten)

(***************************************************************************)
(* The data page: the dataset of the selected record and what the page     *)
(* derives of it.                                                          *)
(***************************************************************************)
\* the useMemo values of the page for a dataset
PageView(dataset) ==
    LET zeroA == evaluateZeroTolerance(dataset.origination, "A", <<>>)
        zeroB == evaluateZeroTolerance(dataset.cannotShop, "B", <<>>)
        tenPercent == evaluateTenPercent(dataset.tenPercent, <<>>, <<>>)
        unlimitedRows == evaluateUnlimited(dataset.unlimited)
    IN  [dataset |-> dataset,
         zeroA |-> zeroA,
         zeroB |-> zeroB,
         tenPercent |-> tenPercent,
         unlimitedRows |-> unlimitedRows,
         exceptions |-> collectExceptions(zeroA, zeroB, tenPercent, unlimitedRows),
         totalDifference |->
            (zeroA.subtotalCD - zeroA.subtotalLE)
            + (zeroB.subtotalCD - zeroB.subtotalLE)
            + (tenPercent.cdTotal - tenPercent.leBase)
            + Sum([i \in DOMAIN unlimitedRows |->
                    unlimitedRows[i].cd.borrower - unlimitedRows[i].le.borrower])]

(***************************************************************************)
(* The records that the page can show.  A raw record has the two           *)
(* disclosures (its tridComparison is null); a pre-matched record has a    *)
(* tridComparison.  Amounts are whole cents; loan_amount is in whole       *)
(* dollars and interest_rate_pct in hundredths of a percent, as the        *)
(* loanAmount and interestRate of evaluateUnlimited.                       *)
(***************************************************************************)
MaxItems == 2
MaxMatchedFees == 2

FeeItem(label, amount) == [label |-> label, amount |-> amount]

\* the items that a list of placed items puts in a section, in their order
RECURSIVE ItemsPlacedIn(_, _)
ItemsPlacedIn(placed, section) ==
    IF placed = <<>> THEN <<>>
    ELSE (IF Head(placed).section = section THEN <<Head(placed).item>> ELSE <<>>)
         \o ItemsPlacedIn(Tail(placed), section)

\* the disclosure that has the placed items and no other
DocOf(placed) ==
    [section \in {placed[i].section : i \in DOMAIN placed} |->
        ItemsPlacedIn(placed, section)]

\* the disclosures of at most MaxItems items, each one of placedItems
Docs(placedItems) == {DocOf(placed) : placed \in SeqsUpTo(placedItems, MaxItems)}

\* the disclosures of no item and of one item of placedItems
SmallDocs(placedItems) ==
    {DocOf(<<>>)} \cup {DocOf(<<placed>>) : placed \in placedItems}

Placed(sections, items) ==
    {[section |-> section, item |-> item] : section \in sections, item \in items}

\* origination charges: two wordings of one fee, another fee, a label that is
\* an index alone, a label that is a "to <provider>" clause alone, and an
\* item that has no label
OriginationItems ==
    {FeeItem("Appraisal Fee", 400000),
     FeeItem("1. appraisal  fee to ABC Co", 450000),
     FeeItem("Credit Report", 30000),
     FeeItem("2 - ", 10000),
     FeeItem(" to ABC Co", 20000),
     [amount |-> 5000]}

CannotShopItems ==
    {FeeItem("Flood Certification", 20000), FeeItem("flood certification", 22000)}

ShoppableItems ==
    {FeeItem("Title Search", 1000000), FeeItem("title search to Acme", 1150000)}

\* prepaid interest of 20 days: 106.85 at 6.5 % on 30,000 dollars
PrepaidInterest == FeeItem("Prepaid Interest 20 days", 106850)

UnlimitedPlaced ==
    Placed({"F", "G", "H"}, {PrepaidInterest})
    \cup Placed({"F"}, {FeeItem("Prepaid Interest 20 days", 150000)})
    \cup Placed({"G"}, {FeeItem("Homeowner Insurance 3 months", 300000)})

LoanTerms == [loan_amount |-> 30000, interest_rate_pct |-> 650]

\* payer, sub_label and amount of a single item: each tag, and none
PayerItems ==
    {[label |-> "Appraisal Fee"] @@ payer @@ subLabel @@ amount :
        payer \in {<<>>, [payer |-> "borrower"], [payer |-> "seller"],
                   [payer |-> "other"]},
        subLabel \in {<<>>,
                      [sub_label |-> "borrower_paid_at_closing"],
                      [sub_label |-> "borrower_paid_before_closing"],
                      [sub_label |-> "seller_paid_at_closing"],
                      [sub_label |-> "seller_paid_before_closing"],
                      [sub_label |-> "paid_by_others"]},
        amount \in {<<>>, [amount |-> 0], [amount |-> 250000]}}

\* a disclosure that has the same items in every section
EverySection(items) ==
    [section \in {"A", "B", "C", "E", "F", "G", "H"} |-> items]

RawRecord(leData, cdData) ==
    [loanEstimateData |-> leData, closingDisclosureData |-> cdData]

RawRecords ==
    {RawRecord(le, cd) : le \in Docs(Placed({"A"}, OriginationItems)),
                         cd \in SmallDocs(Placed({"A"}, OriginationItems))}
    \cup
    {RawRecord(le, cd) : le \in Docs(Placed({"B"}, CannotShopItems)),
                         cd \in SmallDocs(Placed({"B"}, CannotShopItems))}
    \cup
    {RawRecord(le, cd) : le \in Docs(Placed({"C", "E"}, ShoppableItems)),
                         cd \in SmallDocs(Placed({"C", "E"}, ShoppableItems))}
    \cup
    {RawRecord([loan_terms |-> LoanTerms] @@ le, cd) :
        le \in Docs(UnlimitedPlaced), cd \in SmallDocs(UnlimitedPlaced)}
    \cup
    {RawRecord([A |-> <<item>>], <<>>) : item \in PayerItems}
    \cup
    {RawRecord(terms @@ EverySection(<<le>>), EverySection(<<cd>>)) :
        terms \in {<<>>, [loan_terms |-> LoanTerms],
                   [loan_terms |-> [loan_amount |-> 30000]]},
        le \in {PrepaidInterest, FeeItem("Recording Fees and Other Taxes", 200000)},
        cd \in {PrepaidInterest, FeeItem("recording fee", 230000)}}

MatchedFee(name, section, category, confidence) ==
    [fee_name |-> name, section |-> section, tolerance_category |-> category,
     match_confidence |-> confidence, is_new |-> FALSE]

\* fees as the external matcher can send them: two origination fees whose
\* names differ in case only, a raised and an unchanged fee of section B, a
\* fee without amounts, a zero-tolerance fee of a section that is neither A
\* nor B, ten-percent fees of confidence 0.95, 0.60, 0.75 and 0.85, and fees
\* of the unlimited sections
MatchedFees ==
    {[le_amount |-> 400000, cd_amount |-> 450000]
        @@ MatchedFee("Appraisal Fee", "A", "zero", 95),
     [le_amount |-> 30000, cd_amount |-> 30000]
        @@ MatchedFee("appraisal fee", "A", "zero", 95),
     [le_amount |-> 30000, cd_amount |-> 35000]
        @@ MatchedFee("Credit Report", "B", "zero", 95),
     [le_amount |-> 0] @@ MatchedFee("Flood Certification", "B", "zero", 95),
     [le_amount |-> 80000, cd_amount |-> 80000]
        @@ MatchedFee("Tax Service Fee", "B", "zero", 95),
     [cd_amount |-> 100000, is_new |-> TRUE]
        @@ MatchedFee("Courier Fee", "C", "zero", 95),
     [le_amount |-> 1000000, cd_amount |-> 1150000, cd_label |-> "Title Search to Acme"]
        @@ MatchedFee("Title Search", "C", "ten_percent", 95),
     [le_amount |-> 200000, cd_amount |-> 250000]
        @@ MatchedFee("Survey Fee", "C", "ten_percent", 60),
     [le_amount |-> 150000, cd_amount |-> 150000]
        @@ MatchedFee("Pest Inspection", "C", "ten_percent", 75),
     [le_amount |-> 500000, cd_amount |-> 500000, provider_name |-> "County"]
        @@ MatchedFee("Recording Fee", "E", "ten_percent", 85),
     [le_amount |-> 100000, cd_amount |-> 100000]
        @@ MatchedFee("Prepaid Interest 20 days", "F", "unlimited", 95),
     [le_amount |-> 300000, cd_amount |-> 300000]
        @@ MatchedFee("Insurance 3 months (optional)", "G", "unlimited", 95),
     [cd_amount |-> 100000, is_new |-> TRUE]
        @@ MatchedFee("HOA Dues", "H", "unlimited", 95)}

\* the matcher lists a fee once
MatchedRecords ==
    {[tridComparison |-> [matched_fees |-> fees]] :
        fees \in {list \in SeqsUpTo(MatchedFees, MaxMatchedFees) :
                    \A i, j \in DOMAIN list : list[i] = list[j] => i = j}}
    \cup {[tridComparison |-> [summary |-> <<>>]]}

(***************************************************************************)
(* The state machine of the data page: a record is selected and the effect *)
(* stores the dataset that it transforms the record into; a refresh of the *)
(* record list runs the effect again on the selected record.  The page     *)
(* derives what it shows, View below, of the stored dataset.               *)
(***************************************************************************)
\* setDataset(...) of the effect; randoms are the outcomes of Math.random
TransformRecord(record, randoms) ==
    IF "tridComparison" \in DOMAIN record
    THEN transformAIMatchedData(record.tridComparison)
    ELSE transformTridData(record.loanEstimateData,
                           record.closingDisclosureData, randoms)

\* the number of calls of Math.random that the transformation can make
RandomDraws(record) ==
    IF "tridComparison" \in DOMAIN record THEN 0
    ELSE Len(TenItemMap(record.loanEstimateData, record.closingDisclosureData))

PageInit ==
    /\ fn = "DataHandsontablePage"
    /\ args \in RawRecords \cup MatchedRecords
    /\ result = NoResult
    /\ pc = "selected"

SelectRecord ==
    /\ pc = "selected"
    /\ \E randoms \in [1..RandomDraws(args) -> BOOLEAN] :
        result' = TransformRecord(args, randoms)
    /\ pc' = "shown"
    /\ UNCHANGED <<fn, args>>

RefreshRecords ==
    /\ pc = "shown"
    /\ \E randoms \in [1..RandomDraws(args) -> BOOLEAN] :
        result' = TransformRecord(args, randoms)
    /\ pc' = "refreshed"
    /\ UNCHANGED <<fn, args>>

PageNext == SelectRecord \/ RefreshRecords

PageSpec == PageInit /\ [][PageNext]_vars

\* what the page shows once the effect has run
Shown == fn = "DataHandsontablePage" /\ pc \in {"shown", "refreshed"}

View == PageView(result)

(***************************************************************************)
(* What the properties below read of a finished call.                      *)
(***************************************************************************)
Returned(f) == pc = "done" /\ fn = f

\* the rows an evaluator returned
OutRows == IF fn = "evaluateUnlimited" THEN result ELSE result.rows

\* r is x rounded to 2 decimal places: a whole number of cents, at most half a
\* cent from x
IsRounded(r, x) == r % Cent = 0 /\ 2 * Abs(r - x) <= Cent

\* the option of the call, or the documented default
OptionOr(name, default) ==
    IF name \in DOMAIN args.options THEN args.options[name] ELSE default

HasFlag(row, code, severity) ==
    \E k \in DOMAIN row.flags :
        row.flags[k].code = code /\ row.flags[k].severity = severity

HasCode(row, code) == \E k \in DOMAIN row.flags : row.flags[k].code = code

\* the input row is marked permittedToShop
MarkedShoppable(row) == "permittedToShop" \in DOMAIN row /\ row.permittedToShop

\* C1: every output row of the three evaluators has
\* delta = (cd.borrower - le.borrower) rounded to 2 decimal places, and there
\* is one output row per input row.
C1_DeltaIsRoundedDifference ==
    pc = "done" =>
        /\ Len(OutRows) = Len(args.rows)
        /\ \A i \in DOMAIN args.rows :
            IsRounded(OutRows[i].delta,
                      args.rows[i].cd.borrower - args.rows[i].le.borrower)

\* a returned row whose difference is no whole number of cents and was
\* rounded up (1001.006 - 1000 gives 1.01)
C1_Witness ==
    /\ pc = "done"
    /\ \E i \in DOMAIN args.rows :
        /\ args.rows[i].cd.borrower - args.rows[i].le.borrower = 1006
        /\ OutRows[i].delta = 1010

\* C2: in evaluateZeroTolerance a row that is not (bucket B and
\* permittedToShop) is FAIL exactly when delta > zeroThreshold and PASS
\* otherwise; with the default threshold 1.00 a delta of 0.50 is PASS and a
\* delta of 2.00 is FAIL.
C2_ZeroStatusByThreshold ==
    Returned("evaluateZeroTolerance") =>
        \A i \in DOMAIN args.rows :
            ~(args.bucket = "B" /\ MarkedShoppable(args.rows[i])) =>
                LET out == result.rows[i]
                    threshold == OptionOr("zeroThreshold", 1000)
                IN  /\ out.status = "FAIL" <=> out.delta > threshold
                    /\ out.status = "PASS" <=> ~(out.delta > threshold)
                    /\ "zeroThreshold" \notin DOMAIN args.options =>
                        /\ out.delta = 500 => out.status = "PASS"
                        /\ out.delta = 2000 => out.status = "FAIL"

\* the default threshold, a row with delta 0.50 that passed and a row with
\* delta 2.00 that failed
C2_Witness ==
    /\ Returned("evaluateZeroTolerance")
    /\ "zeroThreshold" \notin DOMAIN args.options
    /\ \E i, j \in DOMAIN args.rows :
        /\ ~MarkedShoppable(args.rows[i]) /\ ~MarkedShoppable(args.rows[j])
        /\ args.rows[i].le.borrower = 1000000 /\ args.rows[i].cd.borrower = 1000500
        /\ result.rows[i].delta = 500 /\ result.rows[i].status = "PASS"
        /\ args.rows[j].le.borrower = 1000000 /\ args.rows[j].cd.borrower = 1002000
        /\ result.rows[j].delta = 2000 /\ result.rows[j].status = "FAIL"

\* C3: in bucket B a row marked permittedToShop carries a
\* SECTION_PLACEMENT_MISMATCH warning and is never PASS: REVIEW when
\* delta <= zeroThreshold, FAIL when delta > zeroThreshold. In bucket A, or
\* when permittedToShop is false or absent, the flag is not raised.
C3_PlacementMismatch ==
    Returned("evaluateZeroTolerance") =>
        \A i \in DOMAIN args.rows :
            LET out == result.rows[i]
                threshold == OptionOr("zeroThreshold", 1000)
            IN  IF args.bucket = "B" /\ MarkedShoppable(args.rows[i])
                THEN /\ HasFlag(out, "SECTION_PLACEMENT_MISMATCH", "warning")
                     /\ out.status # "PASS"
                     /\ out.delta <= threshold => out.status = "REVIEW"
                     /\ out.delta > threshold => out.status = "FAIL"
                ELSE ~HasCode(out, "SECTION_PLACEMENT_MISMATCH")

\* bucket B with two rows marked permittedToShop: one with delta 0 that is
\* REVIEW, one over the threshold that stays FAIL
C3_Witness ==
    /\ Returned("evaluateZeroTolerance")
    /\ args.bucket = "B"
    /\ \E i, j \in DOMAIN args.rows :
        /\ MarkedShoppable(args.rows[i]) /\ MarkedShoppable(args.rows[j])
        /\ result.rows[i].delta = 0 /\ result.rows[i].status = "REVIEW"
        /\ result.rows[j].status = "FAIL"
        /\ HasCode(result.rows[i], "SECTION_PLACEMENT_MISMATCH")
        /\ HasCode(result.rows[j], "SECTION_PLACEMENT_MISMATCH")

\* C4: every FAIL row carries a ZERO_LINE_OVERAGE error and has
\* cureAmount = round2(delta - zeroThreshold); every PASS or REVIEW row has
\* cureAmount 0 and no ZERO_LINE_OVERAGE; the result's cureAmount is the
\* rounded sum of the rows' cureAmount.
C4_ZeroCureAmounts ==
    Returned("evaluateZeroTolerance") =>
        /\ \A i \in DOMAIN args.rows :
            LET out == result.rows[i]
                threshold == OptionOr("zeroThreshold", 1000)
            IN  IF out.status = "FAIL"
                THEN /\ HasFlag(out, "ZERO_LINE_OVERAGE", "error")
                     /\ IsRounded(out.cureAmount, out.delta - threshold)
                ELSE /\ out.status \in {"PASS", "REVIEW"}
                     /\ out.cureAmount = 0
                     /\ ~HasCode(out, "ZERO_LINE_OVERAGE")
        /\ IsRounded(result.cureAmount,
                     Sum([i \in DOMAIN result.rows |-> result.rows[i].cureAmount]))

\* the default threshold, a FAIL row with delta 2.00 and cureAmount 1.00
\* beside a row that did not fail, and a total cure of 1.00
C4_Witness ==
    /\ Returned("evaluateZeroTolerance")
    /\ "zeroThreshold" \notin DOMAIN args.options
    /\ result.cureAmount = 1000
    /\ \E i, j \in DOMAIN args.rows :
        /\ result.rows[i].status = "FAIL" /\ result.rows[i].delta = 2000
        /\ result.rows[i].cureAmount = 1000
        /\ result.rows[j].status # "FAIL" /\ result.rows[j].cureAmount = 0

\* the same call with lenderCredits = 0
ZeroWithoutCredits ==
    evaluateZeroTolerance(args.rows, args.bucket,
                          [lenderCredits |-> 0] @@ args.options)

\* C5: when lenderCredits > 0 and lenderCredits >= the total cure needed,
\* every row with a positive cureAmount has a CURED_BY_LENDER warning and is
\* still FAIL; the statuses, the cureAmount values and failCount are those of
\* the run with lenderCredits = 0.
C5_CureKeepsFail ==
    Returned("evaluateZeroTolerance") =>
        \A base \in {ZeroWithoutCredits} :
            LET lenderCredits == OptionOr("lenderCredits", 0)
                totalCureNeeded ==
                    Sum([i \in DOMAIN base.rows |-> base.rows[i].cureAmount])
            IN  (lenderCredits > 0 /\ lenderCredits >= totalCureNeeded) =>
                    /\ \A i \in DOMAIN args.rows :
                        /\ result.rows[i].cureAmount > 0 =>
                            /\ HasFlag(result.rows[i], "CURED_BY_LENDER", "warning")
                            /\ result.rows[i].status = "FAIL"
                        /\ result.rows[i].status = base.rows[i].status
                        /\ result.rows[i].cureAmount = base.rows[i].cureAmount
                    /\ result.failCount = base.failCount
                    /\ result.cureAmount = base.cureAmount

\* a total cure need of 2.00 met by lenderCredits 2.00: two rows over by 1.00,
\* both CURED_BY_LENDER and both FAIL
C5_Witness ==
    /\ Returned("evaluateZeroTolerance")
    /\ OptionOr("lenderCredits", 0) = 2000
    /\ result.cureAmount = 2000
    /\ result.failCount = 2
    /\ \A i \in DOMAIN result.rows :
        /\ result.rows[i].cureAmount = 1000
        /\ result.rows[i].status = "FAIL"
        /\ HasCode(result.rows[i], "CURED_BY_LENDER")

(***************************************************************************)
(* What the ten-percent properties read of the input.                      *)
(***************************************************************************)
\* the override map has a boolean includeInGroup for the id of the row
Overridden(row) ==
    row.id \in DOMAIN args.overrides
    /\ "includeInGroup" \in DOMAIN args.overrides[row.id]

ForcedInclusion(row) == args.overrides[row.id].includeInGroup

\* the override's includeInGroup if there is one, else the row's onWhitelist
EffectivelyOnWhitelist(row) ==
    IF Overridden(row) THEN ForcedInclusion(row) ELSE row.onWhitelist

\* providerType = E or the isRecording flag
RecordingFee(row) ==
    row.providerType = "E" \/ ("isRecording" \in DOMAIN row /\ row.isRecording)

ConfidenceFloor == OptionOr("reviewConfidenceFloor", 80)
ConfidenceCeil == OptionOr("reviewConfidenceCeil", 93)

LowConfidence(row) == row.matchConfidence < ConfidenceFloor

InReviewBand(row) ==
    ConfidenceFloor <= row.matchConfidence /\ row.matchConfidence < ConfidenceCeil

\* the sums of le.borrower and of cd.borrower over the rows returned with
\* inTenGroup true
GroupSumLE ==
    Sum([i \in DOMAIN args.rows |->
            IF result.rows[i].inTenGroup THEN args.rows[i].le.borrower ELSE 0])

GroupSumCD ==
    Sum([i \in DOMAIN args.rows |->
            IF result.rows[i].inTenGroup THEN args.rows[i].cd.borrower ELSE 0])

\* inTenGroup of every row is (effectiveOnWhitelist OR isRecording) AND
\* matchConfidence >= reviewConfidenceFloor
GroupMembershipRule ==
    \A i \in DOMAIN args.rows :
        LET row == args.rows[i]
            out == result.rows[i]
        IN  /\ out.effectiveOnWhitelist = EffectivelyOnWhitelist(row)
            /\ out.inTenGroup <=>
                (EffectivelyOnWhitelist(row) \/ RecordingFee(row))
                /\ row.matchConfidence >= ConfidenceFloor

\* C6 as stated: the membership rule, and leBase and cdTotal are the sums of
\* le.borrower and cd.borrower over exactly the rows with inTenGroup true.
C6_GroupSumsExact ==
    Returned("evaluateTenPercent") =>
        /\ GroupMembershipRule
        /\ result.leBase = GroupSumLE
        /\ result.cdTotal = GroupSumCD

\* C6 as amended: the membership rule, and leBase and cdTotal are the sums of
\* le.borrower and cd.borrower over exactly the rows with inTenGroup true,
\* each rounded to 2 decimal places.
C6_GroupSumsRounded ==
    Returned("evaluateTenPercent") =>
        /\ GroupMembershipRule
        /\ IsRounded(result.leBase, GroupSumLE)
        /\ IsRounded(result.cdTotal, GroupSumCD)

\* includeInGroup = true forced on the first fee, which is off the whitelist,
\* no recording fee and confidently matched: it is in the group beside a
\* second fee that is not, and its amounts 10.064 and 11.078 are the sums,
\* reported as 10.06 and 11.08
C6_Witness ==
    /\ Returned("evaluateTenPercent")
    /\ Len(args.rows) = 2
    /\ Overridden(args.rows[1]) /\ ForcedInclusion(args.rows[1])
    /\ ~args.rows[1].onWhitelist /\ ~RecordingFee(args.rows[1])
    /\ args.rows[1].matchConfidence >= ConfidenceFloor
    /\ result.rows[1].inTenGroup /\ ~result.rows[2].inTenGroup
    /\ GroupSumLE = 10064 /\ result.leBase = 10060
    /\ GroupSumCD = 11078 /\ result.cdTotal = 11080

\* C7: allowedMax = round2(leBase * 1.10), overage = max(0, round2(cdTotal -
\* allowedMax)) and is never negative, the aggregate status is OVER exactly
\* when overage > 0 and PASS otherwise; leBase 1000 gives allowedMax 1100.00,
\* with cdTotal 1150 overage 50.00 and OVER, with cdTotal 1090 overage 0 and
\* PASS.
C7_AggregateCap ==
    Returned("evaluateTenPercent") =>
        /\ result.allowedMax % Cent = 0
        /\ 2 * Abs(10 * result.allowedMax - 11 * result.leBase) <= 10 * Cent
        /\ LET excess == result.cdTotal - result.allowedMax
           IN  \E rounded \in (excess - Cent)..(excess + Cent) :
                /\ IsRounded(rounded, excess)
                /\ result.overage = IF rounded > 0 THEN rounded ELSE 0
        /\ result.overage >= 0
        /\ result.status = "OVER" <=> result.overage > 0
        /\ result.status = "PASS" <=> ~(result.overage > 0)
        /\ result.leBase = 1000000 =>
            /\ result.allowedMax = 1100000
            /\ result.cdTotal = 1150000 =>
                result.overage = 50000 /\ result.status = "OVER"
            /\ result.cdTotal = 1090000 =>
                result.overage = 0 /\ result.status = "PASS"

\* leBase 1000.00 and cdTotal 1150.00: allowedMax 1100.00, overage 50.00, OVER
C7_Witness ==
    /\ Returned("evaluateTenPercent")
    /\ result.leBase = 1000000 /\ result.cdTotal = 1150000
    /\ result.allowedMax = 1100000 /\ result.overage = 50000
    /\ result.status = "OVER"

\* C8 as stated: a boolean includeInGroup for the id of a row makes inTenGroup
\* of the row equal to it, whatever onWhitelist and matchConfidence are.
C8_OverrideForcesMembership ==
    Returned("evaluateTenPercent") =>
        \A i \in DOMAIN args.rows :
            Overridden(args.rows[i]) =>
                result.rows[i].inTenGroup = ForcedInclusion(args.rows[i])

\* C8 as amended: a boolean includeInGroup for the id of a row replaces the
\* row's onWhitelist value and nothing else: effectiveOnWhitelist equals
\* includeInGroup whatever onWhitelist is, and inTenGroup is (includeInGroup
\* OR isRecording) AND matchConfidence >= reviewConfidenceFloor, so that it
\* equals includeInGroup on every row that is no recording fee and is not of
\* low confidence.
C8_OverrideReplacesWhitelist ==
    Returned("evaluateTenPercent") =>
        \A i \in DOMAIN args.rows :
            LET row == args.rows[i]
                out == result.rows[i]
            IN  Overridden(row) =>
                    /\ out.effectiveOnWhitelist = ForcedInclusion(row)
                    /\ out.inTenGroup <=>
                        (ForcedInclusion(row) \/ RecordingFee(row))
                        /\ ~LowConfidence(row)
                    /\ (~RecordingFee(row) /\ ~LowConfidence(row)) =>
                        out.inTenGroup = ForcedInclusion(row)

\* includeInGroup = false on a whitelisted, confidently matched fee that is
\* no recording fee: the fee is out of the group
C8_Witness ==
    /\ Returned("evaluateTenPercent")
    /\ \E i \in DOMAIN args.rows :
        /\ Overridden(args.rows[i]) /\ ~ForcedInclusion(args.rows[i])
        /\ args.rows[i].onWhitelist
        /\ ~RecordingFee(args.rows[i]) /\ ~LowConfidence(args.rows[i])
        /\ ~result.rows[i].effectiveOnWhitelist
        /\ ~result.rows[i].inTenGroup

\* C9: a ten-percent row is REVIEW when matchConfidence < floor, or floor <=
\* matchConfidence < ceil, or it is neither effectively on the whitelist nor
\* a recording fee; in every other case it is PASS. It is never FAIL.
C9_TenRowStatus ==
    Returned("evaluateTenPercent") =>
        \A i \in DOMAIN args.rows :
            LET row == args.rows[i]
                out == result.rows[i]
            IN  /\ out.status =
                    IF \/ row.matchConfidence < ConfidenceFloor
                       \/ (ConfidenceFloor <= row.matchConfidence
                           /\ row.matchConfidence < ConfidenceCeil)
                       \/ (~EffectivelyOnWhitelist(row) /\ ~RecordingFee(row))
                    THEN "REVIEW"
                    ELSE "PASS"
                /\ out.status # "FAIL"

\* a whitelisted row in the review band that is REVIEW, beside a confidently
\* matched recording fee off the whitelist that is PASS
C9_Witness ==
    /\ Returned("evaluateTenPercent")
    /\ \E i, j \in DOMAIN args.rows :
        /\ InReviewBand(args.rows[i]) /\ EffectivelyOnWhitelist(args.rows[i])
        /\ result.rows[i].status = "REVIEW"
        /\ ~InReviewBand(args.rows[j]) /\ ~LowConfidence(args.rows[j])
        /\ RecordingFee(args.rows[j]) /\ ~EffectivelyOnWhitelist(args.rows[j])
        /\ result.rows[j].status = "PASS"

\* C10: PROVIDER_OFF_LIST is raised exactly on the rows that are not
\* effectively on the whitelist, no recording fee, not in the review band and
\* not of low confidence; LOW_CONFIDENCE exactly on the rows in the review
\* band. With the default floor, a row with matchConfidence 0.5, onWhitelist
\* false and isRecording false has inTenGroup false, no PROVIDER_OFF_LIST and
\* status REVIEW.
C10_TenRowFlags ==
    Returned("evaluateTenPercent") =>
        \A i \in DOMAIN args.rows :
            LET row == args.rows[i]
                out == result.rows[i]
            IN  /\ HasCode(out, "PROVIDER_OFF_LIST") <=>
                    /\ ~EffectivelyOnWhitelist(row)
                    /\ ~RecordingFee(row)
                    /\ ~InReviewBand(row)
                    /\ ~LowConfidence(row)
                /\ HasCode(out, "LOW_CONFIDENCE") <=> InReviewBand(row)
                /\ ( /\ "reviewConfidenceFloor" \notin DOMAIN args.options
                     /\ row.matchConfidence = 50
                     /\ ~row.onWhitelist
                     /\ ~RecordingFee(row) ) =>
                        /\ ~out.inTenGroup
                        /\ ~HasCode(out, "PROVIDER_OFF_LIST")
                        /\ out.status = "REVIEW"

\* the default options and no override: a row with matchConfidence 0.5 that
\* is off the whitelist and no recording fee, returned out of the group,
\* without a flag and REVIEW, beside a confident off-list row that is flagged
C10_Witness ==
    /\ Returned("evaluateTenPercent")
    /\ args.options = <<>> /\ args.overrides = <<>>
    /\ \E i, j \in DOMAIN args.rows :
        /\ args.rows[i].matchConfidence = 50
        /\ ~args.rows[i].onWhitelist /\ ~RecordingFee(args.rows[i])
        /\ ~result.rows[i].inTenGroup
        /\ result.rows[i].flags = <<>>
        /\ result.rows[i].status = "REVIEW"
        /\ args.rows[j].matchConfidence = 93
        /\ ~args.rows[j].onWhitelist /\ ~RecordingFee(args.rows[j])
        /\ HasCode(result.rows[j], "PROVIDER_OFF_LIST")

\* the same call with lenderCredits = 0
TenWithoutCredits ==
    evaluateTenPercent(args.rows, args.overrides,
                       [lenderCredits |-> 0] @@ args.options)

\* C11: in evaluateTenPercent, when overage > 0 and lenderCredits >= overage,
\* the rows with inTenGroup true and delta > 0 carry a CURED_BY_LENDER warning
\* and no other row does; the aggregate status stays OVER, and overage and
\* every row status are those of the run with lenderCredits = 0.
C11_TenCureIsAdvisory ==
    Returned("evaluateTenPercent") =>
        \A base \in {TenWithoutCredits} :
            (result.overage > 0 /\ OptionOr("lenderCredits", 0) >= result.overage) =>
                /\ \A i \in DOMAIN args.rows :
                    LET out == result.rows[i]
                    IN  /\ (out.inTenGroup /\ out.delta > 0) =>
                            HasFlag(out, "CURED_BY_LENDER", "warning")
                        /\ ~(out.inTenGroup /\ out.delta > 0) =>
                            ~HasCode(out, "CURED_BY_LENDER")
                        /\ out.status = base.rows[i].status
                /\ result.status = "OVER"
                /\ result.overage = base.overage

\* lenderCredits 50.00 against an overage of 30.00: a fee in the group that
\* rose is reported as cured, the unchanged fee beside it in the group is not
C11_Witness ==
    /\ Returned("evaluateTenPercent")
    /\ OptionOr("lenderCredits", 0) = 50000
    /\ result.overage = 30000 /\ result.status = "OVER"
    /\ \E i, j \in DOMAIN args.rows :
        /\ result.rows[i].inTenGroup /\ result.rows[i].delta > 0
        /\ HasCode(result.rows[i], "CURED_BY_LENDER")
        /\ result.rows[j].inTenGroup /\ result.rows[j].delta = 0
        /\ ~HasCode(result.rows[j], "CURED_BY_LENDER")

\* C12: in the output of the three evaluators every row whose status is
\* REVIEW carries at least one flag; a ten-percent row in REVIEW carries
\* LOW_CONFIDENCE or PROVIDER_OFF_LIST.
C12_ReviewCarriesFlag ==
    pc = "done" =>
        \A i \in DOMAIN OutRows :
            OutRows[i].status = "REVIEW" =>
                /\ Len(OutRows[i].flags) >= 1
                /\ fn = "evaluateTenPercent" =>
                    \/ HasCode(OutRows[i], "LOW_CONFIDENCE")
                    \/ HasCode(OutRows[i], "PROVIDER_OFF_LIST")

\* C13: evaluateUnlimited returns one row per input row; its status is REVIEW
\* exactly when at least one flag was raised on it and PASS otherwise, and it
\* is never FAIL.
C13_UnlimitedStatus ==
    Returned("evaluateUnlimited") =>
        /\ Len(result) = Len(args.rows)
        /\ \A i \in DOMAIN args.rows :
            /\ result[i].status = "REVIEW" <=> Len(result[i].flags) >= 1
            /\ result[i].status = "PASS" <=> Len(result[i].flags) = 0
            /\ result[i].status # "FAIL"

\* a section G row with three escrow months that has exactly one flag and is
\* REVIEW, beside a row without a flag that is PASS
C13_Witness ==
    /\ Returned("evaluateUnlimited")
    /\ \E i, j \in DOMAIN args.rows :
        /\ args.rows[i].bucket = "G"
        /\ Len(result[i].flags) = 1
        /\ HasCode(result[i], "ESCROW_CUSHION_EXCEEDED")
        /\ result[i].status = "REVIEW"
        /\ result[j].flags = <<>> /\ result[j].status = "PASS"

(***************************************************************************)
(* The properties of the data page.                                        *)
(***************************************************************************)
\* the rows of the four evaluations in the order of the page, each with the
\* section tag that the collector gives its entries
Tagged(rows, tag) == [i \in DOMAIN rows |-> [row |-> rows[i], tag |-> tag]]

TaggedRows ==
    Tagged(View.zeroA.rows, "A") \o Tagged(View.zeroB.rows, "B")
    \o Tagged(View.tenPercent.rows, "C+E")
    \o [i \in DOMAIN View.unlimitedRows |->
            [row |-> View.unlimitedRows[i], tag |-> View.unlimitedRows[i].bucket]]

\* the number of flags of the rows before the k-th
FlagsBefore(k) == Sum([j \in 1..(k - 1) |-> Len(TaggedRows[j].row.flags)])

\* C14: collectExceptions returns one entry per flag of each row of A, then of
\* B, then of the ten-percent rows (tag C+E), then of the unlimited rows in
\* input order (tag: the bucket of the row), the flags of a row in insertion
\* order and none left out; then one entry with id ten-percent-overage and
\* amount = overage when overage > 0, and nothing otherwise.  Its length is
\* the number of flags plus 1 if the aggregate is OVER.
C14_ExceptionsInOrder ==
    Shown =>
        LET entries == View.exceptions
            flags == FlagsBefore(Len(TaggedRows) + 1)
            ten == View.tenPercent
        IN  /\ \A k \in DOMAIN TaggedRows :
                \A f \in DOMAIN TaggedRows[k].row.flags :
                    LET row == TaggedRows[k].row
                        entry == entries[FlagsBefore(k) + f]
                    IN  /\ FlagsBefore(k) + f \in DOMAIN entries
                        /\ entry.id = row.id
                        /\ entry.section = TaggedRows[k].tag
                        /\ entry.fee = row.fee
                        /\ entry.message = row.flags[f].label
                        /\ entry.severity = row.flags[f].severity
                        /\ entry.amount = row.delta
            /\ Len(entries) = flags + (IF ten.status = "OVER" THEN 1 ELSE 0)
            /\ ten.overage > 0 =>
                /\ Len(entries) = flags + 1
                /\ entries[flags + 1].id = "ten-percent-overage"
                /\ entries[flags + 1].amount = ten.overage
            /\ ~(ten.overage > 0) => Len(entries) = flags

\* a pre-matched record whose section B row has two flags, both listed and in
\* their order, and whose aggregate is over its limit, so that the synthetic
\* entry ends the list after them
C14_Witness ==
    /\ Shown
    /\ \E i \in DOMAIN View.zeroB.rows : Len(View.zeroB.rows[i].flags) = 2
    /\ View.tenPercent.overage > 0
    /\ Len(View.exceptions) = 3
    /\ View.exceptions[1].section = "B" /\ View.exceptions[2].section = "B"
    /\ View.exceptions[3].id = "ten-percent-overage"

\* C15: running the evaluation again on the same record, with the same
\* options and overrides, yields the same output on the raw-document path and
\* on the pre-matched path: no field of the output, onWhitelist, inTenGroup,
\* leBase, allowedMax and overage among them, depends on anything but the
\* input.
C15_SameOutputOnRerun ==
    [][(pc = "shown" /\ pc' = "refreshed") => View' = View]_vars

\* the rows of the four lists of the stored dataset
DatasetRows ==
    result.origination \o result.cannotShop \o result.tenPercent
    \o result.unlimited

\* C16: the id of a fee row is unique within one evaluation run: in the
\* dataset of transformTridData and in the dataset of transformAIMatchedData
\* no two rows, of one bucket or of two, have the same id, also when matched
\* fees of one section have names that are equal or differ in case or
\* punctuation only.
C16_IdsUnique ==
    Shown =>
        \A i, j \in DOMAIN DatasetRows :
            DatasetRows[i].id = DatasetRows[j].id => i = j

\* the key that the rules of the normalizer give the labels of the records:
\* the index prefix and the trailing "to <provider>" are dropped, the case is
\* folded, white space is collapsed
ExpectedKey(label) ==
    CASE label \in {"Appraisal Fee", "1. appraisal  fee to ABC Co"} -> "appraisal fee"
      [] label = "Credit Report" -> "credit report"
      [] label \in {"2 - ", " to ABC Co"} -> ""
      [] label \in {"Flood Certification", "flood certification"} ->
            "flood certification"
      [] label \in {"Title Search", "title search to Acme"} -> "title search"
      [] label = "Prepaid Interest 20 days" -> "prepaid interest 20 days"
      [] label = "Homeowner Insurance 3 months" -> "homeowner insurance 3 months"
      [] label = "Recording Fees and Other Taxes" ->
            "recording fees and other taxes"
      [] label = "recording fee" -> "recording fee"

\* the sections that are merged into each list of the dataset
MergedSections ==
    [origination |-> <<"A">>, cannotShop |-> <<"B">>, tenPercent |-> <<"C", "E">>,
     unlimited |-> <<"F", "G", "H">>]

\* the labeled items that a disclosure has in the sections of a list
LabeledItems(doc, list) ==
    {item \in UNION {{Items(doc, MergedSections[list][k])[i] :
                        i \in DOMAIN Items(doc, MergedSections[list][k])} :
                     k \in DOMAIN MergedSections[list]} : HasLabel(item)}

\* a row of the list has the LE item on its LE side and the CD item on its CD
\* side (the items of a record differ in their amounts, which are not zero)
InOneRow(list, leItem, cdItem) ==
    \E i \in DOMAIN result[list] :
        /\ result[list][i].le.borrower = leItem.amount
        /\ result[list][i].cd.borrower = cdItem.amount

\* the records of the raw-document path whose items all have an amount
RawShown ==
    /\ Shown
    /\ "loanEstimateData" \in DOMAIN args
    /\ \A list \in DOMAIN MergedSections :
        \A item \in LabeledItems(args.loanEstimateData, list)
                    \cup LabeledItems(args.closingDisclosureData, list) :
            HasAmount(item) /\ item.amount # 0

\* C17: in the section merge of the raw-document path an LE item and a CD
\* item whose normalized keys differ are never in one row, and an LE item and
\* a CD item whose normalized keys are equal are in one row, which has both
\* its LE side and its CD side populated.
C17_MergeByKey ==
    RawShown =>
        \A list \in DOMAIN MergedSections :
            \A leItem \in LabeledItems(args.loanEstimateData, list) :
                \A cdItem \in LabeledItems(args.closingDisclosureData, list) :
                    InOneRow(list, leItem, cdItem)
                    <=> ExpectedKey(leItem.label) = ExpectedKey(cdItem.label)

\* the pre-matched path: the record has a tridComparison
MatchedShown == Shown /\ "tridComparison" \in DOMAIN args

\* the matched fees of the selected record
InputFees ==
    IF "matched_fees" \in DOMAIN args.tridComparison
    THEN args.tridComparison.matched_fees
    ELSE <<>>

\* the places of the dataset where a row shows the fee (the fees of a record
\* differ in their names)
RowsOf(fee) ==
    {place \in UNION {{<<list, i>> : i \in DOMAIN result[list]} :
                        list \in DOMAIN MergedSections} :
        result[place[1]][place[2]].fee = FeeLabel(fee)}

\* both the LE amount and the CD amount of the fee are zero or absent
HasNoAmount(fee) ==
    /\ "le_amount" \in DOMAIN fee => fee.le_amount = 0
    /\ "cd_amount" \in DOMAIN fee => fee.cd_amount = 0

\* C18: transformAIMatchedData drops a matched fee exactly when both its LE
\* amount and its CD amount are zero or absent; every other matched fee is in
\* exactly one of the four lists, and the fees of a list are in input order.
C18_EveryFeeListed ==
    MatchedShown =>
        /\ \A k \in DOMAIN InputFees :
            Cardinality(RowsOf(InputFees[k])) =
                IF HasNoAmount(InputFees[k]) THEN 0 ELSE 1
        /\ \A list \in DOMAIN MergedSections :
            \A i, j \in DOMAIN result[list] :
                i < j =>
                    \E k, l \in DOMAIN InputFees :
                        /\ k < l
                        /\ result[list][i].fee = FeeLabel(InputFees[k])
                        /\ result[list][j].fee = FeeLabel(InputFees[l])

\* the CD borrower subtotal of a list of rows minus its LE borrower subtotal
SubtotalDifference(rows) ==
    Sum([i \in DOMAIN rows |-> rows[i].cd.borrower])
    - Sum([i \in DOMAIN rows |-> rows[i].le.borrower])

\* C19: the total-delta figure is the sum over the four buckets (A, B,
\* ten-percent, unlimited) of the CD borrower subtotal of the bucket minus its
\* LE borrower subtotal, each subtotal over all rows of the bucket, the
\* ten-percent rows that are not in the 10% group among them.
C19_TotalDifference ==
    Shown =>
        View.totalDifference =
            SubtotalDifference(result.origination)
            + SubtotalDifference(result.cannotShop)
            + SubtotalDifference(result.tenPercent)
            + SubtotalDifference(result.unlimited)

\* a raw record whose only item is one of PayerItems, on the LE side of
\* section A: the row a-0 has the split of the item as le and the split of an
\* absent item as cd
PayerShown ==
    /\ Shown
    /\ "loanEstimateData" \in DOMAIN args
    /\ args.closingDisclosureData = <<>>
    /\ DOMAIN args.loanEstimateData = {"A"}
    /\ Len(args.loanEstimateData.A) = 1
    /\ args.loanEstimateData.A[1] \in PayerItems

\* the amount of a payer in a split; the seller and other amounts of a split
\* are left out when they are 0
SplitAmount(split, payer) == IF payer \in DOMAIN split THEN split[payer] ELSE 0

\* the item is tagged for the payer, by its payer or by its sub-label
TaggedFor(item, payer) ==
    \/ "payer" \in DOMAIN item /\ item.payer = payer
    \/ /\ "sub_label" \in DOMAIN item
       /\ item.sub_label \in
            CASE payer = "borrower" ->
                    {"borrower_paid_at_closing", "borrower_paid_before_closing"}
              [] payer = "seller" ->
                    {"seller_paid_at_closing", "seller_paid_before_closing"}
              [] payer = "other" -> {"paid_by_others"}

\* C20: the payer split gives the borrower the amount of an item when its
\* payer is borrower, when its sub-label mentions borrower, or when it has
\* neither payer nor sub-label, and 0 otherwise (an item tagged seller or
\* other and not borrower); for an absent item or a null amount the three
\* amounts are 0; the seller and other amounts are non-zero only on an
\* explicit seller or other tag.
C20_PayerSplit ==
    PayerShown =>
        LET item == args.loanEstimateData.A[1]
            split == result.origination[1].le
            absent == result.origination[1].cd
            toBorrower ==
                \/ TaggedFor(item, "borrower")
                \/ "payer" \notin DOMAIN item /\ "sub_label" \notin DOMAIN item
        IN  /\ \A payer \in {"borrower", "seller", "other"} :
                SplitAmount(absent, payer) = 0
            /\ "amount" \notin DOMAIN item =>
                \A payer \in {"borrower", "seller", "other"} :
                    SplitAmount(split, payer) = 0
            /\ "amount" \in DOMAIN item =>
                /\ split.borrower = IF toBorrower THEN item.amount ELSE 0
                /\ SplitAmount(split, "seller") # 0 => TaggedFor(item, "seller")
                /\ SplitAmount(split, "other") # 0 => TaggedFor(item, "other")

\* the places (section, index) of the labeled items of a disclosure in the
\* sections of a list
LabeledPlaces(doc, list) ==
    {place \in UNION {{<<MergedSections[list][k], i>> :
                        i \in DOMAIN Items(doc, MergedSections[list][k])} :
                      k \in DOMAIN MergedSections[list]} :
        HasLabel(doc[place[1]][place[2]])}

\* every labeled item of the document is on the given side of exactly one row
\* of the list: as many rows show an amount on that side as the document has
\* labeled items of that amount
EachOnOneRow(doc, list, side) ==
    \A place \in LabeledPlaces(doc, list) :
        LET amount == doc[place[1]][place[2]].amount
        IN  Cardinality({i \in DOMAIN result[list] :
                            result[list][i][side].borrower = amount})
            = Cardinality({other \in LabeledPlaces(doc, list) :
                            doc[other[1]][other[2]].amount = amount})

\* C21: after the merge of a section each labeled LE item is the LE side of
\* exactly one row and each labeled CD item is the CD side of exactly one row,
\* also when two items of one document have the same normalized key: no item
\* is overwritten or lost.
C21_NoItemLost ==
    RawShown =>
        \A list \in DOMAIN MergedSections :
            /\ EachOnOneRow(args.loanEstimateData, list, "le")
            /\ EachOnOneRow(args.closingDisclosureData, list, "cd")

\* the labeled items of the document in the sections of the list whose key
\* is the empty string
EmptyKeyItems(doc, list) ==
    {item \in LabeledItems(doc, list) : ExpectedKey(item.label) = ""}

\* C22: items whose label is empty, absent or normalizes to the empty string
\* are excluded from merge matching: no merged row is keyed by the empty
\* string (no row shows such an item), and two such items are never paired
\* into one row.
C22_EmptyKeysExcluded ==
    RawShown =>
        \A list \in DOMAIN MergedSections :
            /\ \A item \in EmptyKeyItems(args.loanEstimateData, list) :
                \A i \in DOMAIN result[list] :
                    result[list][i].le.borrower # item.amount
            /\ \A item \in EmptyKeyItems(args.closingDisclosureData, list) :
                \A i \in DOMAIN result[list] :
                    result[list][i].cd.borrower # item.amount
            /\ \A leItem \in EmptyKeyItems(args.loanEstimateData, list) :
                \A cdItem \in EmptyKeyItems(args.closingDisclosureData, list) :
                    ~InOneRow(list, leItem, cdItem)

\* the amounts of the labeled items that a disclosure has in a section
LabeledAmounts(doc, section) ==
    {Items(doc, section)[i].amount :
        i \in {j \in DOMAIN Items(doc, section) : HasLabel(Items(doc, section)[j])}}

\* the side of an unlimited row holds an item of the row's bucket, and every
\* section that has a labeled item on that side has a row of its own
SidePerSection(doc, side) ==
    /\ \A i \in DOMAIN result.unlimited :
        result.unlimited[i][side].borrower # 0 =>
            result.unlimited[i][side].borrower
                \in LabeledAmounts(doc, result.unlimited[i].bucket)
    /\ \A section \in {"F", "G", "H"} :
        LabeledAmounts(doc, section) # {} =>
            \E i \in DOMAIN result.unlimited :
                /\ result.unlimited[i].bucket = section
                /\ result.unlimited[i][side].borrower
                    \in LabeledAmounts(doc, section)

\* C23: transformUnlimited merges each unlimited section by itself: an LE
\* item and a CD item are in one row only when they are of the same section
\* (F with F, G with G, H with H), the bucket of a row is the section of the
\* items it holds, and an item of one section never replaces an item of
\* another section that has the same normalized key, nor pairs with it.
C23_UnlimitedPerSection ==
    RawShown =>
        /\ SidePerSection(args.loanEstimateData, "le")
        /\ SidePerSection(args.closingDisclosureData, "cd")

(***************************************************************************)
(* The evaluators on a memory of objects.  The memory is a sequence of     *)
(* objects and an object is referred to by its position; a fee refers to   *)
(* its le and cd splits, a list to its fees, a display row to its flags.   *)
(* The arguments of a call are laid out in the memory before the call and  *)
(* the call leaves the memory it has written as part of its result.        *)
(***************************************************************************)
Ref(at) == [ref |-> at]

\* the fees of a list laid out one after the other: the le split, the cd
\* split and the fee object that refers to the two
RECURSIVE StoreFees(_, _)
StoreFees(heap, rows) ==
    IF rows = <<>> THEN heap
    ELSE StoreFees(heap \o <<Head(rows).le, Head(rows).cd,
                             [Head(rows) EXCEPT !.le = Ref(Len(heap) + 1),
                                                !.cd = Ref(Len(heap) + 2)]>>,
                   Tail(rows))

\* the arguments of a call as the caller holds them: the fee objects, the
\* list of the fees, and the options and override map where the call has them
InMemory(call) ==
    LET fees == StoreFees(<<>>, call.rows)
        count == Len(call.rows)
        list == [i \in 1..count |-> Ref(3 * i)]
        given == {"options", "overrides"} \cap DOMAIN call
        optionsAt == 3 * count + 2
        overridesAt == IF "options" \in given THEN optionsAt + 1 ELSE optionsAt
    IN  [heap |-> fees \o <<list>>
                  \o (IF "options" \in given THEN <<call.options>> ELSE <<>>)
                  \o (IF "overrides" \in given THEN <<call.overrides>> ELSE <<>>),
         rows |-> Ref(3 * count + 1)]
        @@ (IF "options" \in given THEN [options |-> Ref(optionsAt)] ELSE <<>>)
        @@ (IF "overrides" \in given THEN [overrides |-> Ref(overridesAt)] ELSE <<>>)
        @@ call

\* row.le and row.cd read through the fee object
LoadFee(heap, fee) ==
    [heap[fee.ref] EXCEPT !.le = heap[@.ref], !.cd = heap[@.ref]]

\* the rows the evaluator reads from the list it is given
LoadFees(heap, list) ==
    [i \in DOMAIN heap[list.ref] |-> LoadFee(heap, heap[list.ref][i])]

\* a display row read through its object: its flags array and its splits
LoadRow(heap, row) ==
    [heap[row.ref] EXCEPT !.le = heap[@.ref], !.cd = heap[@.ref],
                          !.flags = heap[@.ref]]

LoadRows(heap, list) ==
    [i \in DOMAIN heap[list.ref] |-> LoadRow(heap, heap[list.ref][i])]

\* mutant of SpreadRow: the computed fields are assigned to the fee itself
SpreadRow_inPlace(heap, fee, fields) ==
    [heap |-> [heap EXCEPT ![fee.ref] = fields @@ @], row |-> fee]

\* { ...row, delta, status, flags, ... }: a new object that has the computed
\* fields and, under them, the own fields of the fee (le and cd by reference)
SpreadRow(heap, fee, fields) ==
    [heap |-> Append(heap, fields @@ heap[fee.ref]), row |-> Ref(Len(heap) + 1)]

\* rows.map(...): for each fee a new flags array with the flags of the
\* callback and a new display row; scored holds what the callback computed
RECURSIVE MapRows(_, _, _, _)
MapRows(heap, fees, scored, made) ==
    IF fees = <<>> THEN [heap |-> heap, rows |-> made]
    ELSE LET flags == Ref(Len(heap) + 1)
             computed == [f \in DOMAIN Head(scored) \ (DOMAIN heap[Head(fees).ref] \ {"flags"})
                            |-> IF f = "flags" THEN flags ELSE Head(scored)[f]]
             spread == SpreadRow(Append(heap, Head(scored).flags), Head(fees), computed)
         IN  MapRows(spread.heap, Tail(fees), Tail(scored), Append(made, spread.row))

\* evaluated.forEach((row) => row.flags.push(...)): the flags array of each
\* display row is written where it is; evaluated holds the rows after the loop
RECURSIVE PushFlags(_, _, _)
PushFlags(heap, rows, evaluated) ==
    IF rows = <<>> THEN heap
    ELSE PushFlags([heap EXCEPT ![heap[Head(rows).ref].flags.ref] = Head(evaluated).flags],
                   Tail(rows), Tail(evaluated))

\* one evaluator run on the memory: map makes the display rows of the fees,
\* the cure loop pushes its flags, and the new list of the display rows is
\* what the caller gets
RunInMemory(heap, fees, scored, evaluated) ==
    LET mapped == MapRows(heap, fees, scored, <<>>)
        pushed == PushFlags(mapped.heap, mapped.rows, evaluated)
    IN  [heap |-> Append(pushed, mapped.rows), rows |-> Ref(Len(pushed) + 1)]

MemoryInit ==
    /\ \/ fn = "evaluateZeroTolerance" /\ args \in {InMemory(c) : c \in ZeroCalls}
       \/ fn = "evaluateTenPercent" /\ args \in {InMemory(c) : c \in TenCalls}
       \/ fn = "evaluateUnlimited" /\ args \in {InMemory(c) : c \in UnlimitedCalls}
    /\ result = NoResult
    /\ pc = "call"

ZeroToleranceInMemory ==
    /\ pc = "call"
    /\ fn = "evaluateZeroTolerance"
    /\ LET rows == LoadFees(args.heap, args.rows)
           options == args.heap[args.options.ref]
           scored == [i \in DOMAIN rows |-> ZeroRow(rows[i], args.bucket, Config(options))]
           returned == evaluateZeroTolerance(rows, args.bucket, options)
       IN  result' = RunInMemory(Append(args.heap, Config(options)),
                                 args.heap[args.rows.ref], scored,
                                 returned.rows) @@ returned
    /\ pc' = "done"
    /\ UNCHANGED <<fn, args>>

TenPercentInMemory ==
    /\ pc = "call"
    /\ fn = "evaluateTenPercent"
    /\ LET rows == LoadFees(args.heap, args.rows)
           options == args.heap[args.options.ref]
           overrides == args.heap[args.overrides.ref]
           scored == [i \in DOMAIN rows |-> TenRow(rows[i], overrides, Config(options))]
           returned == evaluateTenPercent(rows, overrides, options)
       IN  result' = RunInMemory(Append(args.heap, Config(options)),
                                 args.heap[args.rows.ref], scored,
                                 returned.rows) @@ returned
    /\ pc' = "done"
    /\ UNCHANGED <<fn, args>>

UnlimitedInMemory ==
    /\ pc = "call"
    /\ fn = "evaluateUnlimited"
    /\ LET rows == LoadFees(args.heap, args.rows)
           returned == evaluateUnlimited(rows)
       IN  result' = RunInMemory(args.heap, args.heap[args.rows.ref], returned, returned)
    /\ pc' = "done"
    /\ UNCHANGED <<fn, args>>

MemoryNext ==
    \/ ZeroToleranceInMemory
    \/ TenPercentInMemory
    \/ UnlimitedInMemory

MemorySpec == MemoryInit /\ [][MemoryNext]_vars

(***************************************************************************)
(* The properties of the evaluators on the memory.                         *)
(***************************************************************************)
InMemoryDone == pc = "done" /\ "heap" \in DOMAIN result

\* the positions of the objects the caller handed in
InputObjects == 1..Len(args.heap)

\* the flags arrays of the display rows that a call returned
ReturnedFlags ==
    {result.heap[result.heap[result.rows.ref][i].ref].flags.ref :
        i \in DOMAIN result.heap[result.rows.ref]}

\* what a call returned, read through the memory, is what the evaluator
\* computes from the rows read through the memory before the call
ReturnedRowsAsComputed ==
    InMemoryDone =>
        LoadRows(result.heap, result.rows) =
            LET rows == LoadFees(args.heap, args.rows)
            IN  CASE fn = "evaluateZeroTolerance" ->
                        evaluateZeroTolerance(rows, args.bucket,
                                              args.heap[args.options.ref]).rows
                  [] fn = "evaluateTenPercent" ->
                        evaluateTenPercent(rows, args.heap[args.overrides.ref],
                                           args.heap[args.options.ref]).rows
                  [] fn = "evaluateUnlimited" -> evaluateUnlimited(rows)

\* C24: no evaluator changes what it is given: after the call the fee list,
\* every fee object with its le and cd splits, the override map and the
\* options are as they were before it, also when CURED_BY_LENDER is pushed;
\* the returned list, every returned row and every flags array is a new
\* object, none of them one of the objects handed in.
C24_InputNotMutated ==
    InMemoryDone =>
        /\ \A at \in InputObjects : result.heap[at] = args.heap[at]
        /\ result.rows.ref \notin InputObjects
        /\ \A i \in DOMAIN result.heap[result.rows.ref] :
                result.heap[result.rows.ref][i].ref \notin InputObjects
        /\ ReturnedFlags \cap InputObjects = {}
        /\ Len(result.heap[result.rows.ref]) = Len(args.heap[args.rows.ref])

\* a zero-tolerance call of two fees has returned and its cure loop has
\* pushed CURED_BY_LENDER onto a row
C24_Witness ==
    /\ InMemoryDone
    /\ fn = "evaluateZeroTolerance"
    /\ Len(args.heap[args.rows.ref]) = 2
    /\ \E i \in DOMAIN result.heap[result.rows.ref] :
        \E k \in DOMAIN LoadRows(result.heap, result.rows)[i].flags :
            LoadRows(result.heap, result.rows)[i].flags[k].code = "CURED_BY_LENDER"

(***************************************************************************)
(* The properties of evaluateUnlimited.                                    *)
(***************************************************************************)
\* the field is on the row and has the value
FieldIs(row, field, value) == field \in DOMAIN row /\ row[field] = value

\* C25 as stated: OPTIONALITY_MISMATCH is on a row of evaluateUnlimited
\* exactly when its bucket is H, lenderRequired is true and isOptional is
\* false; it is on no row of bucket F or G, on no row whose lenderRequired
\* is false or absent and on no row whose isOptional is true.
C25_OptionalityMismatch ==
    Returned("evaluateUnlimited") =>
        \A i \in DOMAIN args.rows :
            HasCode(result[i], "OPTIONALITY_MISMATCH") <=>
                /\ args.rows[i].bucket = "H"
                /\ FieldIs(args.rows[i], "lenderRequired", TRUE)
                /\ FieldIs(args.rows[i], "isOptional", FALSE)

\* C25 as amended: OPTIONALITY_MISMATCH is on a row exactly when its bucket
\* is H, lenderRequired is true and isOptional is false or absent; it is on
\* no row of bucket F or G, on no row whose lenderRequired is false or
\* absent and on no row whose isOptional is true.
C25_OptionalityMismatchOrAbsent ==
    Returned("evaluateUnlimited") =>
        \A i \in DOMAIN args.rows :
            LET row == args.rows[i]
                raised == HasCode(result[i], "OPTIONALITY_MISMATCH")
            IN  /\ raised <=>
                    /\ row.bucket = "H"
                    /\ FieldIs(row, "lenderRequired", TRUE)
                    /\ "isOptional" \notin DOMAIN row \/ row.isOptional = FALSE
                /\ row.bucket \in {"F", "G"} => ~raised
                /\ ~FieldIs(row, "lenderRequired", TRUE) => ~raised
                /\ FieldIs(row, "isOptional", TRUE) => ~raised

\* a section H row that is lender-required and has no isOptional carries the
\* flag, beside a lender-required row of section G that does not
C25_Witness ==
    /\ Returned("evaluateUnlimited")
    /\ \E i, j \in DOMAIN args.rows :
        /\ args.rows[i].bucket = "H"
        /\ FieldIs(args.rows[i], "lenderRequired", TRUE)
        /\ "isOptional" \notin DOMAIN args.rows[i]
        /\ HasCode(result[i], "OPTIONALITY_MISMATCH")
        /\ args.rows[j].bucket = "G"
        /\ FieldIs(args.rows[j], "lenderRequired", TRUE)
        /\ ~HasCode(result[j], "OPTIONALITY_MISMATCH")

\* perDiemDays, loanAmount and interestRate are on the row
PerDiemKnown(row) ==
    {"perDiemDays", "loanAmount", "interestRate"} \subseteq DOMAIN row

\* expected is loanAmount * interestRate / 100 / 365 * perDiemDays rounded to
\* 2 decimal places (amounts in mills, the rate in hundredths of a percent)
IsExpectedPerDiem(expected, row) ==
    /\ expected % Cent = 0
    /\ 2 * Abs(3650 * expected - row.loanAmount * row.interestRate * row.perDiemDays)
            <= 3650 * Cent

\* the whole cents next to loanAmount * interestRate / 100 / 365 * perDiemDays
PerDiemCents(row) ==
    LET below == (row.loanAmount * row.interestRate * row.perDiemDays) \div (3650 * Cent)
    IN  {below * Cent, (below + 1) * Cent}

\* C26: on a row of bucket F that has perDiemDays, loanAmount and
\* interestRate and a cd.borrower above 0, PER_DIEM_INTEREST_DEVIATION is
\* raised exactly when |cd.borrower - expected| / expected is above 10 %,
\* expected being loanAmount * interestRate / 100 / 365 * perDiemDays rounded
\* to 2 decimal places; it is raised on no row of another bucket, on no row
\* that lacks one of the three values and on no row whose cd.borrower is 0
\* or less.
C26_PerDiemDeviation ==
    Returned("evaluateUnlimited") =>
        \A i \in DOMAIN args.rows :
            LET row == args.rows[i]
                raised == HasCode(result[i], "PER_DIEM_INTEREST_DEVIATION")
            IN  IF row.bucket = "F" /\ PerDiemKnown(row) /\ row.cd.borrower > 0
                THEN \E expected \in PerDiemCents(row) :
                        /\ IsExpectedPerDiem(expected, row)
                        /\ raised <=>
                            10 * Abs(row.cd.borrower - expected) > expected
                ELSE ~raised

(***************************************************************************)
(* The properties of the pre-matched path of the data page.                *)
(***************************************************************************)
\* the matched fees of a section and tolerance category that have an amount
FeesOf(section, category) ==
    {i \in DOMAIN InputFees :
        /\ InputFees[i].section = section
        /\ InputFees[i].tolerance_category = category
        /\ ~HasNoAmount(InputFees[i])}

\* C27: on the pre-matched path every zero-tolerance fee of section B is
\* adapted with permittedToShop = true, so each of them is a row of bucket B
\* that carries SECTION_PLACEMENT_MISMATCH and is REVIEW or FAIL, and the
\* passCount of bucket B is 0.
C27_MatchedSectionBNeverPasses ==
    MatchedShown =>
        /\ Len(View.zeroB.rows) = Cardinality(FeesOf("B", "zero"))
        /\ \A i \in FeesOf("B", "zero") :
            \E k \in DOMAIN View.zeroB.rows :
                View.zeroB.rows[k].fee = FeeLabel(InputFees[i])
        /\ \A k \in DOMAIN View.zeroB.rows :
            /\ View.zeroB.rows[k].permittedToShop
            /\ HasCode(View.zeroB.rows[k], "SECTION_PLACEMENT_MISMATCH")
            /\ View.zeroB.rows[k].status \in {"REVIEW", "FAIL"}
        /\ View.zeroB.passCount = 0

\* a raised and an unchanged fee of section B: one row is FAIL, the other
\* REVIEW, both carry the flag
C27_Witness ==
    /\ MatchedShown
    /\ Len(View.zeroB.rows) = 2
    /\ \E j, k \in DOMAIN View.zeroB.rows :
        /\ View.zeroB.rows[j].status = "FAIL"
        /\ View.zeroB.rows[k].status = "REVIEW"
        /\ View.zeroB.rows[k].delta = 0
        /\ HasCode(View.zeroB.rows[j], "SECTION_PLACEMENT_MISMATCH")
        /\ HasCode(View.zeroB.rows[k], "SECTION_PLACEMENT_MISMATCH")

\* the ten-percent fees of the record that have an amount
TenFeesOf ==
    {i \in DOMAIN InputFees :
        /\ InputFees[i].tolerance_category = "ten_percent"
        /\ ~HasNoAmount(InputFees[i])}

\* C28: on the pre-matched path, with the default options and the empty
\* override map of the page, onWhitelist of a ten-percent row is
\* match_confidence >= 0.7, no ten-percent row carries PROVIDER_OFF_LIST, and
\* a row is in the 10 % group exactly when its match_confidence is at least
\* 0.80, whatever its provider and section are.
C28_MatchedTenGroupByConfidence ==
    MatchedShown =>
        /\ Len(View.tenPercent.rows) = Cardinality(TenFeesOf)
        /\ \A i \in TenFeesOf :
            \E k \in DOMAIN View.tenPercent.rows :
                LET row == View.tenPercent.rows[k]
                IN  /\ row.fee = FeeLabel(InputFees[i])
                    /\ row.matchConfidence = InputFees[i].match_confidence
                    /\ row.onWhitelist <=> InputFees[i].match_confidence >= 70
                    /\ ~HasCode(row, "PROVIDER_OFF_LIST")
                    /\ row.inTenGroup <=> InputFees[i].match_confidence >= 80

\* a fee of confidence 0.75 that is on the whitelist and outside the group
\* beside a fee of confidence 0.95 that is in the group
C28_Witness ==
    /\ MatchedShown
    /\ \E j, k \in DOMAIN View.tenPercent.rows :
        /\ View.tenPercent.rows[j].matchConfidence = 75
        /\ View.tenPercent.rows[j].onWhitelist
        /\ ~View.tenPercent.rows[j].inTenGroup
        /\ View.tenPercent.rows[k].matchConfidence = 95
        /\ View.tenPercent.rows[k].providerType = "C"
        /\ View.tenPercent.rows[k].inTenGroup

(***************************************************************************)
(* The upload route: the relay stream of POST.  The backend answers with   *)
(* a stream of lines; the route reads it chunk by chunk, passes each data  *)
(* line on to its own response stream, keeps the payload of a 'complete'   *)
(* event and, when the backend stream has ended, stores the record and     *)
(* reports the outcome.  A chunk holds one line.  The steps between two    *)
(* awaits (reader.read() and the insert) are one action each.              *)
(***************************************************************************)
MaxLines == 3

\* the payload of a 'complete' event: as the backend documents it, or without
\* its files and meta
Payloads ==
    {[files |-> <<>>, meta |-> [pipeline |-> "landing"]],
     [trid_comparison |-> <<>>]}

\* the lines of the backend stream: a progress event, 'complete' events with
\* and without a payload, an 'error' event, a data line that is no JSON and
\* the empty line that ends an event
BackendLines ==
    {[data |-> [step |-> "start"]],
     [data |-> [step |-> "complete"]],
     [data |-> [step |-> "error"]],
     [data |-> [garbled |-> TRUE]],
     [blank |-> TRUE]}
    \cup {[data |-> [step |-> "complete", payload |-> p]] : p \in Payloads}

\* line.startsWith('data: ') and JSON.parse(line.slice(6)) returns an object
Parses(line) == "data" \in DOMAIN line /\ "garbled" \notin DOMAIN line.data

\* data.step === 'complete' && data.payload
HasFinalPayload(line) ==
    Parses(line) /\ line.data.step = "complete" /\ "payload" \in DOMAIN line.data

\* controller.enqueue(...) of an event of the step
Enqueue(relay, step) == [relay EXCEPT !.emitted = Append(@, step)]

\* controller.close()
Close(relay) == [relay EXCEPT !.closes = @ + 1]

\* the catch block of start: an 'error' event, then the stream is closed
CatchError(relay) == Close(Enqueue(relay, "error"))

\* the body of the for loop over the lines of a chunk
RelayLine(relay, line) ==
    IF Parses(line)
    THEN Enqueue([relay EXCEPT !.finalPayload =
                    IF HasFinalPayload(line) THEN line.data.payload ELSE @],
                 line.data.step)
    ELSE relay

\* for (const fileInfo of backendData.files) and backendData.meta.pipeline
\* throw a TypeError on a payload without files or meta
PayloadReadable(payload) == {"files", "meta"} \subseteq DOMAIN payload

RelayInit ==
    /\ fn = "POST"
    /\ args \in [lines : SeqsUpTo(BackendLines, MaxLines)]
    /\ result = [read |-> 0, finalPayload |-> NoResult, emitted |-> <<>>,
                 ended |-> FALSE, inserts |-> 0, insertAt |-> 0,
                 saved |-> FALSE, insertThrew |-> FALSE, closes |-> 0]
    /\ pc = "reading"

\* reader.read() resolves with a chunk
ReadChunk ==
    /\ pc = "reading"
    /\ result.read < Len(args.lines)
    /\ result' = RelayLine([result EXCEPT !.read = @ + 1],
                           args.lines[result.read + 1])
    /\ UNCHANGED <<fn, args, pc>>

\* reader.read() rejects: the connection to the backend is lost
ReadRejects ==
    /\ pc = "reading"
    /\ result' = CatchError(result)
    /\ pc' = "closed"
    /\ UNCHANGED <<fn, args>>

\* reader.read() resolves with done: without a payload the route reports an
\* error; with one it emits 'saving', builds the record and calls the insert
BackendEnds ==
    /\ pc = "reading"
    /\ result.read = Len(args.lines)
    /\ LET ended == [result EXCEPT !.ended = TRUE]
       IN  IF ended.finalPayload = NoResult
           THEN /\ result' = Close(Enqueue(ended, "error"))
                /\ pc' = "closed"
           ELSE IF ~PayloadReadable(ended.finalPayload)
           THEN /\ result' = CatchError(Enqueue(ended, "saving"))
                /\ pc' = "closed"
           ELSE /\ result' = [Enqueue(ended, "saving") EXCEPT
                                !.inserts = @ + 1,
                                !.insertAt = Len(ended.emitted) + 1]
                /\ pc' = "inserting"
    /\ UNCHANGED <<fn, args>>

\* mutant of InsertResolves: the stream is closed before and after 'done'
InsertResolves_closedTwice ==
    /\ pc = "inserting"
    /\ result' = Close(Enqueue(Close([result EXCEPT !.saved = TRUE]), "done"))
    /\ pc' = "closed"
    /\ UNCHANGED <<fn, args>>

\* the insert returns the saved record: 'done' is emitted, the stream closed
InsertResolves ==
    /\ pc = "inserting"
    /\ result' = Close(Enqueue([result EXCEPT !.saved = TRUE], "done"))
    /\ pc' = "closed"
    /\ UNCHANGED <<fn, args>>

\* the insert throws
InsertRejects ==
    /\ pc = "inserting"
    /\ result' = CatchError([result EXCEPT !.insertThrew = TRUE])
    /\ pc' = "closed"
    /\ UNCHANGED <<fn, args>>

RelayNext ==
    \/ ReadChunk
    \/ ReadRejects
    \/ BackendEnds
    \/ InsertResolves
    \/ InsertRejects

\* a pending read or insert is answered: the backend stream and the database
\* resolve or reject the promise that start awaits
RelaySpec == RelayInit /\ [][RelayNext]_vars /\ WF_vars(RelayNext)

(***************************************************************************)
(* The properties of the relay stream.  inserts counts the calls of the    *)
(* insert and insertAt is the number of events that were emitted before    *)
(* the call.                                                               *)
(***************************************************************************)
\* a 'complete' event with a payload is among the lines read so far
PayloadReceived ==
    \E i \in 1..result.read : HasFinalPayload(args.lines[i])

Emitted(step) == \E k \in DOMAIN result.emitted : result.emitted[k] = step

RelaySafe ==
    /\ result.inserts <= 1
    /\ result.inserts = 1 =>
        /\ result.ended /\ result.read = Len(args.lines)
        /\ PayloadReceived
        /\ \E k \in 1..result.insertAt : result.emitted[k] = "saving"
    /\ result.saved => result.inserts = 1
    /\ \A k \in DOMAIN result.emitted :
        result.emitted[k] = "done" => result.saved /\ k > result.insertAt
    /\ (pc = "closed" /\ (~PayloadReceived \/ result.insertThrew)) =>
        /\ result.emitted # <<>>
        /\ result.emitted[Len(result.emitted)] = "error"
        /\ ~Emitted("done")
    /\ result.closes = (IF pc = "closed" THEN 1 ELSE 0)

Null == [null |-> TRUE]

Message(text) == [message |-> text]

\* the lines of the response stream: progress events, 'complete' and 'done',
\* 'error' events, an object without a step, a data line that is no JSON and
\* the empty line that ends an event
ResponseLines ==
    {[data |-> [step |-> "start", message |-> "Starting"]],
     [data |-> [step |-> "complete", message |-> "Extraction complete"]],
     [data |-> [step |-> "done", message |-> "All processing complete!"]],
     [data |-> [step |-> "error", message |-> "No final payload received"]],
     [data |-> [step |-> "error", message |-> "Backend failed"]],
     [data |-> [message |-> "no step"]],
     [data |-> [garbled |-> TRUE]],
     [blank |-> TRUE]}

\* the two pages that have the handler
UploadPages == {"app/data/page.tsx", "app/page.tsx"}

\* status of the progress step of an event
StepStatus(step) ==
    IF step \in {"complete", "done"} THEN "completed"
    ELSE IF step = "error" THEN "error"
    ELSE "processing"

\* setProgressSteps(prev => ...): the event is added with its status; the
\* page of several documents first completes a last step that is processing
AddProgressStep(page, prev, data) ==
    LET updatedPrev ==
            IF page = "app/data/page.tsx"
            THEN [idx \in DOMAIN prev |->
                    IF idx = Len(prev) /\ prev[idx].status = "processing"
                    THEN [prev[idx] EXCEPT !.status = "completed"]
                    ELSE prev[idx]]
            ELSE prev
    IN  Append(updatedPrev, [status |-> StepStatus(data.step)] @@ data)

\* the body of the for loop over the lines of a chunk: the throw of an
\* 'error' event is inside the try whose catch logs 'Failed to parse SSE'
HandleLine(page, state, line) ==
    IF Parses(line) /\ "step" \in DOMAIN line.data
    THEN [state EXCEPT
            !.progressSteps = AddProgressStep(page, @, line.data),
            !.uploadSuccess = IF line.data.step \in {"complete", "done"}
                              THEN TRUE ELSE @,
            !.redirects = IF line.data.step \in {"complete", "done"}
                          THEN @ + 1 ELSE @]
    ELSE state

\* catch (error) { setUploadError(error.message) } finally
\* { setIsUploading(false) }
CatchUploadError(state, message) ==
    [state EXCEPT !.uploadError = Message(message), !.isUploading = FALSE]

\* the page before a submission: at rest, with what an earlier submission
\* has left
UploadInit ==
    /\ fn = "handleSubmit"
    /\ args \in [page : UploadPages, lines : SeqsUpTo(ResponseLines, MaxLines)]
    /\ result \in [isUploading : {FALSE}, uploadError : {Null, Message("Backend failed")},
                   uploadSuccess : BOOLEAN, progressSteps : {<<>>},
                   redirects : {0}, read : {0}]
    /\ pc = "idle"

\* handleSubmit up to await fetch(...)
Submit ==
    /\ pc = "idle"
    /\ result' = [result EXCEPT !.isUploading = TRUE, !.uploadError = Null,
                                !.uploadSuccess = FALSE, !.progressSteps = <<>>]
    /\ pc' = "fetching"
    /\ UNCHANGED <<fn, args>>

\* fetch resolves with a response that has a body
FetchResolves ==
    /\ pc = "fetching"
    /\ pc' = "reading"
    /\ UNCHANGED <<fn, args, result>>

\* fetch resolves with a response without a body
FetchWithoutBody ==
    /\ pc = "fetching"
    /\ result' = CatchUploadError(result, "No response body")
    /\ pc' = "finished"
    /\ UNCHANGED <<fn, args>>

\* fetch rejects: the network failed
FetchRejects ==
    /\ pc = "fetching"
    /\ result' = CatchUploadError(result, "Failed to fetch")
    /\ pc' = "finished"
    /\ UNCHANGED <<fn, args>>

\* reader.read() resolves with a chunk
ReadResponse ==
    /\ pc = "reading"
    /\ result.read < Len(args.lines)
    /\ result' = HandleLine(args.page, [result EXCEPT !.read = @ + 1],
                            args.lines[result.read + 1])
    /\ UNCHANGED <<fn, args, pc>>

\* reader.read() resolves with done: the finally block
ResponseEnds ==
    /\ pc = "reading"
    /\ result.read = Len(args.lines)
    /\ result' = [result EXCEPT !.isUploading = FALSE]
    /\ pc' = "finished"
    /\ UNCHANGED <<fn, args>>

\* reader.read() rejects: the connection is lost
ResponseFails ==
    /\ pc = "reading"
    /\ result' = CatchUploadError(result, "network error")
    /\ pc' = "finished"
    /\ UNCHANGED <<fn, args>>

UploadNext ==
    \/ Submit
    \/ FetchResolves
    \/ FetchWithoutBody
    \/ FetchRejects
    \/ ReadResponse
    \/ ResponseEnds
    \/ ResponseFails

UploadSpec == UploadInit /\ [][UploadNext]_vars

(***************************************************************************)
(* The properties of handleSubmit.                                         *)
(***************************************************************************)
\* the 'error' events among the lines that were delivered
ErrorEvents ==
    {i \in 1..result.read :
        /\ Parses(args.lines[i])
        /\ "step" \in DOMAIN args.lines[i].data
        /\ args.lines[i].data.step = "error"}

\* C30: when the response stream has delivered an event of step 'error',
\* handleSubmit ends with uploadError equal to the message of that event and
\* uploadSuccess false; and on every path (success, error event, network
\* failure) isUploading is false when handleSubmit has finished.
C30_ErrorEventReported ==
    pc = "finished" =>
        /\ ~result.isUploading
        /\ \A i \in ErrorEvents :
            /\ result.uploadError = Message(args.lines[i].data.message)
            /\ ~result.uploadSuccess

====
